------------------------- MODULE MemoryIngestProofs -------------------------
(***************************************************************************)
(* Proofs about MemoryIngest for every set of sources, workers, job ids    *)
(* and generations, every outcome function and every budget of events.     *)
(***************************************************************************)
EXTENDS MemoryIngest, JobQueueProofs, FunctionTheorems, SequenceTheorems

\* What a change of the queue keeps when it deletes no row.
KeepsRows ==
  \A j \in Rows : /\ j \in Rows'
                  /\ jobs'[j].source = jobs[j].source
                  /\ jobs'[j].kind = jobs[j].kind
\* ... and when it leaves the rows being worked on alone.
KeepsRunning ==
  \A j \in Rows : jobs[j].status = "running" => j \in Rows' /\ jobs'[j] = jobs[j]

Work(s) == HasActive(s, "ingest") \/ HasParked(s, "ingest")

LEMMA SameQueue ==
  ASSUME UNCHANGED jobs
  PROVE  /\ QueueInv => QueueInv'
         /\ KeepsRows /\ KeepsRunning
         /\ \A s : HasActive(s, "ingest")' = HasActive(s, "ingest")
         /\ \A s : HasParked(s, "ingest")' = HasParked(s, "ingest")
BY DEF QueueInv, QueueTypeOK, ActiveUnique, Rows, IsActive, SameWork, KeepsRows,
       KeepsRunning, HasActive, HasParked

(* Work on a source is never dropped by a change that keeps all rows.       *)
LEMMA KeptRowsKeepWork ==
  ASSUME QueueInv, QueueInv', KeepsRows
  PROVE  \A s : Work(s) => Work(s)'
<1>. SUFFICES ASSUME NEW s, NEW j \in Rows, jobs[j].source = s, jobs[j].kind = "ingest"
              PROVE  Work(s)'
  BY DEF Work, HasActive, HasParked
<1>1. j \in Rows' /\ jobs'[j].source = s /\ jobs'[j].kind = "ingest"
  BY DEF KeepsRows
<1>2. jobs'[j].status \in JobStatus
  BY <1>1 DEF QueueInv, QueueTypeOK, Job
<1>. QED  BY <1>1, <1>2 DEF Work, HasActive, HasParked, IsActive, JobStatus

LEMMA EnqueueJobKeeps ==
  ASSUME QueueInv, NEW o \in Owners, NEW k \in Kinds, EnqueueJob(o, k)
  PROVE  KeepsRows /\ KeepsRunning /\ HasActive(o, k)'
<1>1. CASE HasActive(o, k) /\ UNCHANGED jobs
  BY <1>1 DEF KeepsRows, KeepsRunning, Rows, HasActive, IsActive
<1>2. CASE ~HasActive(o, k) /\ Rows # JobIds /\ ~UNCHANGED jobs
  <2>. DEFINE j == NewId
              new == [source |-> o, kind |-> k, status |-> "pending", due |-> TRUE,
                      attempts |-> 0, permanent |-> 0]
  <2>1. j \in JobIds /\ j \notin Rows
    BY <1>2 DEF NewId, QueueInv, QueueTypeOK
  <2>2. jobs' = [i \in Rows \cup {j} |-> IF i = j THEN new ELSE jobs[i]]
    BY <1>2 DEF EnqueueJob
  <2>3. Rows' = Rows \cup {j} /\ jobs'[j] = new /\ \A i \in Rows : jobs'[i] = jobs[i]
    BY <2>1, <2>2 DEF Rows
  <2>. QED  BY <2>3 DEF KeepsRows, KeepsRunning, HasActive, IsActive
<1>3. CASE HasActive(o, k) /\ ~UNCHANGED jobs
  BY <1>3 DEF EnqueueJob
<1>4. CASE ~HasActive(o, k) /\ UNCHANGED jobs
  <2>1. Rows # JobIds /\ NewId \in Rows' /\ Rows' = Rows
    BY <1>4 DEF EnqueueJob, Rows
  <2>2. NewId \notin Rows
    BY <2>1 DEF NewId, QueueInv, QueueTypeOK
  <2>. QED  BY <2>1, <2>2
<1>. QED  BY <1>1, <1>2, <1>3, <1>4 DEF EnqueueJob

LEMMA RetryFailedJobsKeeps ==
  ASSUME QueueInv, RetryFailedJobs
  PROVE  KeepsRows /\ KeepsRunning
<1>1. Rows' = Rows
  BY DEF RetryFailedJobs, Unparked, Rows
<1>2. ASSUME NEW j \in Rows, jobs[j].status # "failed"
      PROVE  jobs'[j] = jobs[j]
  BY <1>2 DEF RetryFailedJobs, Unparked
<1>3. ASSUME NEW j \in Rows
      PROVE  jobs'[j].source = jobs[j].source /\ jobs'[j].kind = jobs[j].kind
  <2>1. jobs[j] \in Job
    BY DEF QueueInv, QueueTypeOK
  <2>. QED  BY <2>1 DEF RetryFailedJobs, Unparked, Job
<1>. QED  BY <1>1, <1>2, <1>3 DEF KeepsRows, KeepsRunning

-----------------------------------------------------------------------------
(* The two ways a step of a worker ends: on to the next stage, or out with  *)
(* a result.  Nobody else's state changes, nor the job it works on.         *)
Others(w) == \A v \in Workers : v # w => worker'[v] = worker[v]
SameJob(w) == worker'[w].job = worker[w].job /\ worker'[w].src = worker[w].src

LEMMA GotoEffect ==
  ASSUME StateTypeOK, NEW w \in Workers, NEW pc \in Steps, Goto(w, pc)
  PROVE  /\ worker' \in [Workers -> WorkerState]
         /\ worker'[w] = [worker[w] EXCEPT !.pc = pc]
         /\ worker'[w].pc = pc /\ worker'[w].gen = worker[w].gen
         /\ worker'[w].result = worker[w].result
         /\ SameJob(w) /\ Others(w)
BY DEF StateTypeOK, WorkerState, Goto, SameJob, Others

LEMMA SettleEffect ==
  ASSUME StateTypeOK, NEW w \in Workers, NEW r \in Results, Settle(w, r)
  PROVE  /\ worker' \in [Workers -> WorkerState]
         /\ worker'[w].pc = "settle" /\ worker'[w].result = r
         /\ SameJob(w) /\ Others(w)
<1>1. worker[w] \in WorkerState /\ "settle" \in Steps
  BY DEF StateTypeOK, Steps
<1>. QED  BY <1>1 DEF StateTypeOK, WorkerState, Settle, SameJob, Others

LEMMA IdleEffect ==
  ASSUME IngestAssumption, StateTypeOK, NEW w \in Workers, worker' = [worker EXCEPT ![w] = Idle]
  PROVE  worker' \in [Workers -> WorkerState] /\ worker'[w].pc = "idle" /\ Others(w)
BY DEF StateTypeOK, WorkerState, Idle, Others, Steps, Results

\* Chunks are only ever replaced.
ChunksStay == \A s \in Sources : chunks[s] # NoGen => chunks'[s] # NoGen

\* A worker's step that keeps its job.
Stage(w) ==
  /\ worker' \in [Workers -> WorkerState] /\ Others(w) /\ SameJob(w)
  /\ worker'[w].pc \in Pipeline => worker[w].pc \in Pipeline
  /\ worker'[w].pc # "distill"
  /\ worker'[w].pc = "replace" => worker'[w].gen \in Gens
  /\ worker'[w].pc = "complete" => chunks'[Src(w)] # NoGen
  /\ worker'[w].pc = "settle" /\ worker'[w].result = "ok"
       /\ jobs[worker[w].job].kind = "ingest" => chunks'[Src(w)] # NoGen

(* A worker's step that leaves the queue alone keeps the rows held, as long *)
(* as it stays in the pipeline and settles "ok" only with chunks stored.    *)
LEMMA HeldStep ==
  ASSUME IngestInv, NEW w \in Workers, UNCHANGED <<jobs, agent>>, agent = "up", ChunksStay,
         Holds(w), Stage(w)
  PROVE  HeldRows' /\ HeldApart' /\ DownIdle'
<1>1. HeldRows'
  <2>. SUFFICES ASSUME NEW v \in Workers, Holds(v)'
                PROVE  /\ worker'[v].job \in Rows
                       /\ jobs[worker'[v].job].status = "running"
                       /\ jobs[worker'[v].job].source = worker'[v].src
                       /\ worker'[v].pc \in Pipeline => jobs[worker'[v].job].kind = "ingest"
                       /\ worker'[v].pc = "distill" => jobs[worker'[v].job].kind = "facts"
                       /\ worker'[v].pc = "replace" => worker'[v].gen \in Gens
                       /\ worker'[v].pc = "complete" => chunks'[worker'[v].src] # NoGen
                       /\ worker'[v].pc = "settle" /\ worker'[v].result = "ok"
                            /\ jobs[worker'[v].job].kind = "ingest"
                            => chunks'[worker'[v].src] # NoGen
    BY DEF HeldRows, Rows, Src
  <2>1. CASE v = w
    BY <2>1 DEF IngestInv, HeldRows, SameJob, Src, Stage
  <2>2. CASE v # w
    <3>1. worker'[v] = worker[v] /\ Holds(v)
      BY <2>2 DEF Others, Holds, Stage
    <3>2. jobs[worker[v].job] \in Job
      BY <3>1 DEF IngestInv, HeldRows, TypeOK, QueueTypeOK
    <3>3. worker[v].src \in Sources
      BY <3>1, <3>2, IngestAssumption DEF IngestInv, HeldRows, Src, Job
    <3>. QED  BY <3>1, <3>3 DEF IngestInv, HeldRows, Src, ChunksStay
  <2>. QED  BY <2>1, <2>2
<1>2. HeldApart'
  BY DEF IngestInv, HeldApart, Holds, Others, SameJob, Stage
<1>3. DownIdle'
  BY DEF DownIdle
<1>. QED  BY <1>1, <1>2, <1>3

(* A worker that lets go of its job.                                        *)
LEMMA HeldRelease ==
  ASSUME IngestInv, NEW w \in Workers, UNCHANGED <<agent, chunks>>, agent = "up",
         Others(w), worker'[w].pc \in {"idle", "park"},
         \A v \in Workers : v # w /\ Holds(v) =>
           worker[v].job \in Rows' /\ jobs'[worker[v].job] = jobs[worker[v].job]
  PROVE  HeldRows' /\ HeldApart' /\ DownIdle'
<1>1. HeldRows'
  BY DEF IngestInv, HeldRows, Holds, Others, Src
<1>2. HeldApart'
  BY DEF IngestInv, HeldApart, Holds, Others
<1>3. DownIdle'
  BY DEF DownIdle
<1>. QED  BY <1>1, <1>2, <1>3

(* A step of somebody else that keeps the rows being worked on.             *)
LEMMA HeldElsewhere ==
  ASSUME IngestInv, UNCHANGED <<worker, agent, chunks>>, KeepsRunning
  PROVE  HeldRows' /\ HeldApart' /\ DownIdle'
<1>1. HeldRows'
  BY DEF IngestInv, HeldRows, Holds, Src, KeepsRunning
<1>2. HeldApart' /\ DownIdle'
  BY DEF IngestInv, HeldApart, DownIdle, Holds
<1>. QED  BY <1>1, <1>2

LEMMA GotoStage ==
  ASSUME IngestInv, NEW w \in Workers, NEW pc \in Pipeline \ {"replace"}, Goto(w, pc),
         worker[w].pc \in Pipeline, pc = "complete" => chunks'[Src(w)] # NoGen
  PROVE  Stage(w)
<1>1. pc \in Steps /\ StateTypeOK /\ pc \notin {"settle", "distill", "replace"}
  BY DEF Steps, Pipeline, IngestInv, TypeOK
<1>. QED  BY <1>1, GotoEffect DEF Stage

LEMMA SettleStage ==
  ASSUME IngestInv, NEW w \in Workers, NEW r \in Results, Settle(w, r),
         r = "ok" /\ jobs[worker[w].job].kind = "ingest" => chunks'[Src(w)] # NoGen
  PROVE  Stage(w)
<1>1. StateTypeOK /\ "settle" \notin Pipeline
  BY DEF Pipeline, IngestInv, TypeOK
<1>. QED  BY <1>1, SettleEffect DEF Stage

(* What a step of a worker inside its job has to show.                      *)
LEMMA StageInv ==
  ASSUME IngestInv, NEW w \in Workers, UNCHANGED <<jobs, agent, acked, cli>>, agent = "up",
         Holds(w), Stage(w), StateTypeOK', ChunksStay, CompletedHasChunks'
  PROVE  IngestInv'
<1>1. QueueInv'
  BY SameQueue DEF IngestInv, TypeOK, QueueInv
<1>2. HeldRows' /\ HeldApart' /\ DownIdle'
  BY HeldStep, IngestAssumption
<1>3. CliHasTarget'
  BY DEF IngestInv, CliHasTarget
<1>4. AckedKept'
  BY SameQueue DEF IngestInv, AckedKept, ChunksStay, TypeOK, StateTypeOK
<1>. QED  BY <1>1, <1>2, <1>3, <1>4 DEF IngestInv, TypeOK, QueueInv

(* What a step that is not a worker's has to show.                          *)
LEMMA OutsideInv ==
  ASSUME IngestInv, UNCHANGED <<worker, agent, chunks>>, QueueInv', KeepsRows, KeepsRunning,
         StateTypeOK', CompletedHasChunks', CliHasTarget',
         \A s \in acked' \ acked : chunks[s] # NoGen \/ Work(s)'
  PROVE  IngestInv'
<1>1. HeldRows' /\ HeldApart' /\ DownIdle'
  BY HeldElsewhere
<1>2. AckedKept'
  <2>1. \A s : Work(s) => Work(s)'
    BY KeptRowsKeepWork DEF IngestInv, TypeOK, QueueInv
  <2>. QED  BY <2>1 DEF IngestInv, AckedKept, Work
<1>. QED  BY <1>1, <1>2 DEF IngestInv, TypeOK, QueueInv

-----------------------------------------------------------------------------
(* The stages of a worker.                                                  *)

LEMMA EventsTyped ==
  ASSUME StateTypeOK
  PROVE  \A e : Happens(e) => events' \in 0..MaxEvents
BY IngestAssumption DEF StateTypeOK, Happens

(* Writing a status other than "completed" completes nothing.               *)
LEMMA SetStatusTyped ==
  ASSUME StateTypeOK, NEW s \in Sources, NEW status \in SourceStatus \ {"completed"},
         SetStatus(s, status)
  PROVE  /\ sources' \in [Sources -> SourceStatus] /\ events' \in 0..MaxEvents
         /\ \A t \in Sources : sources'[t] = "completed" => sources[t] = "completed"
<1>1. CASE sources' = [sources EXCEPT ![s] = status] /\ UNCHANGED events
  BY <1>1 DEF StateTypeOK
<1>2. CASE UNCHANGED sources /\ Happens("write_failed")
  BY <1>2, EventsTyped DEF StateTypeOK
<1>. QED  BY <1>1, <1>2 DEF SetStatus

LEMMA AtHolds ==
  ASSUME IngestInv, NEW w \in Workers, worker[w].pc \notin {"idle", "park"}
  PROVE  /\ Holds(w) /\ Src(w) \in Sources /\ StateTypeOK
         /\ worker[w].job \in Rows /\ jobs[worker[w].job] \in Job
         /\ jobs[worker[w].job].status = "running" /\ jobs[worker[w].job].source = Src(w)
<1>1. Holds(w) /\ worker[w].job \in Rows
  BY DEF Holds, IngestInv, HeldRows
<1>2. jobs[worker[w].job] \in Job
  BY <1>1 DEF IngestInv, TypeOK, QueueTypeOK
<1>. QED  BY <1>1, <1>2, IngestAssumption DEF IngestInv, HeldRows, TypeOK, Src, Job

LEMMA LoadSourceInv ==
  ASSUME IngestInv, NEW w \in Workers, LoadSource(w)
  PROVE  IngestInv'
<1>1. /\ worker[w].pc = "load" /\ agent = "up" /\ UNCHANGED <<jobs, agent, acked, cli>>
      /\ Holds(w) /\ Src(w) \in Sources /\ StateTypeOK
  BY AtHolds DEF LoadSource, At
<1>2. Stage(w)
  <2>1. CASE Settle(w, "unsupported")
    BY <2>1, SettleStage DEF Results
  <2>2. CASE Goto(w, "extract")
    BY <2>2, <1>1, GotoStage DEF Pipeline
  <2>. QED  BY <2>1, <2>2 DEF LoadSource
<1>3. worker' \in [Workers -> WorkerState]
  BY <1>2 DEF Stage
<1>s. /\ sources' \in [Sources -> SourceStatus]
      /\ \A s \in Sources : sources'[s] = "completed" => sources[s] = "completed"
      /\ events' \in 0..MaxEvents
  BY <1>1, SetStatusTyped DEF LoadSource, StateTypeOK, SourceStatus
<1>4. StateTypeOK'
  BY <1>1, <1>3, <1>s DEF LoadSource, StateTypeOK
<1>5. ChunksStay
  BY <1>1 DEF LoadSource, ChunksStay, StateTypeOK
<1>6. CompletedHasChunks'
  BY <1>1, <1>5, <1>s DEF LoadSource, CompletedHasChunks, ChunksStay, IngestInv, StateTypeOK
<1>. QED  BY <1>1, <1>2, <1>4, <1>5, <1>6, StageInv

LEMMA ExtractInv ==
  ASSUME IngestInv, NEW w \in Workers, Extract(w)
  PROVE  IngestInv'
<1>1. /\ worker[w].pc = "extract" /\ agent = "up" /\ UNCHANGED <<jobs, agent, acked, cli>>
      /\ Holds(w) /\ Src(w) \in Sources /\ StateTypeOK
  BY AtHolds DEF Extract, At
<1>2. Stage(w)
  <2>1. CASE Goto(w, "ensure")
    BY <2>1, <1>1, GotoStage DEF Pipeline
  <2>2. CASE \E r \in {"unsupported", "error"} : Settle(w, r)
    BY <2>2, SettleStage DEF Results
  <2>. QED  BY <2>1, <2>2 DEF Extract
<1>3. worker' \in [Workers -> WorkerState]
  BY <1>2 DEF Stage
<1>4. StateTypeOK'
  BY <1>1, <1>3 DEF Extract, StateTypeOK
<1>5. ChunksStay
  BY <1>1 DEF Extract, ChunksStay, StateTypeOK
<1>6. CompletedHasChunks'
  BY <1>1, <1>5 DEF Extract, CompletedHasChunks, ChunksStay, IngestInv, StateTypeOK
<1>. QED  BY <1>1, <1>2, <1>4, <1>5, <1>6, StageInv

LEMMA EnsureCollectionInv ==
  ASSUME IngestInv, NEW w \in Workers, EnsureCollection(w)
  PROVE  IngestInv'
<1>1. /\ worker[w].pc = "ensure" /\ agent = "up" /\ UNCHANGED <<jobs, agent, acked, cli>>
      /\ Holds(w) /\ Src(w) \in Sources /\ StateTypeOK
  BY AtHolds DEF EnsureCollection, At
<1>2. Stage(w)
  <2>1. CASE Goto(w, "embed")
    BY <2>1, <1>1, GotoStage DEF Pipeline
  <2>2. CASE Settle(w, "transient")
    BY <2>2, SettleStage DEF Results
  <2>. QED  BY <2>1, <2>2 DEF EnsureCollection
<1>3. worker' \in [Workers -> WorkerState]
  BY <1>2 DEF Stage
<1>4. StateTypeOK'
  BY <1>1, <1>3 DEF EnsureCollection, StateTypeOK
<1>5. ChunksStay
  BY <1>1 DEF EnsureCollection, ChunksStay, StateTypeOK
<1>6. CompletedHasChunks'
  BY <1>1, <1>5 DEF EnsureCollection, CompletedHasChunks, ChunksStay, IngestInv, StateTypeOK
<1>. QED  BY <1>1, <1>2, <1>4, <1>5, <1>6, StageInv

LEMMA EmbedInv ==
  ASSUME IngestInv, NEW w \in Workers, Embed(w)
  PROVE  IngestInv'
<1>1. /\ worker[w].pc = "embed" /\ agent = "up" /\ UNCHANGED <<jobs, agent, acked, cli>>
      /\ Holds(w) /\ Src(w) \in Sources /\ StateTypeOK
  BY AtHolds DEF Embed, At
<1>2. Stage(w)
  <2>1. CASE Goto(w, "upsert")
    BY <2>1, <1>1, GotoStage DEF Pipeline
  <2>2. CASE Settle(w, "transient")
    BY <2>2, SettleStage DEF Results
  <2>. QED  BY <2>1, <2>2 DEF Embed
<1>3. worker' \in [Workers -> WorkerState]
  BY <1>2 DEF Stage
<1>4. StateTypeOK'
  BY <1>1, <1>3 DEF Embed, StateTypeOK
<1>5. ChunksStay
  BY <1>1 DEF Embed, ChunksStay, StateTypeOK
<1>6. CompletedHasChunks'
  BY <1>1, <1>5 DEF Embed, CompletedHasChunks, ChunksStay, IngestInv, StateTypeOK
<1>. QED  BY <1>1, <1>2, <1>4, <1>5, <1>6, StageInv

LEMMA UpsertInv ==
  ASSUME IngestInv, NEW w \in Workers, Upsert(w)
  PROVE  IngestInv'
<1>1. /\ worker[w].pc = "upsert" /\ agent = "up" /\ UNCHANGED <<jobs, agent, acked, cli>>
      /\ Holds(w) /\ Src(w) \in Sources /\ StateTypeOK
  BY AtHolds DEF Upsert, At
<1>0. "vectors" \in up /\ collection => NewGen(Src(w)) \in Gens
  BY DEF Upsert, NewGen, Fresh
<1>2. Stage(w)
  <2>1. CASE Settle(w, "transient")
    BY <2>1, SettleStage DEF Results
  <2>2. CASE ~Settle(w, "transient")
    <3>1. /\ worker' = [worker EXCEPT ![w].pc = "replace", ![w].gen = NewGen(Src(w))]
          /\ NewGen(Src(w)) \in Gens
      BY <2>2, <1>0 DEF Upsert
    <3>2. "replace" \in Steps /\ worker[w] \in WorkerState
      BY <1>1 DEF Steps, Pipeline, StateTypeOK
    <3>3. /\ worker' \in [Workers -> WorkerState]
          /\ worker'[w].pc = "replace" /\ worker'[w].gen \in Gens /\ SameJob(w) /\ Others(w)
      BY <3>1, <3>2, <1>1 DEF StateTypeOK, WorkerState, SameJob, Others
    <3>. QED  BY <3>3, <1>1 DEF Stage, Pipeline
  <2>. QED  BY <2>1, <2>2
<1>3. worker' \in [Workers -> WorkerState]
  BY <1>2 DEF Stage
<1>4. StateTypeOK'
  BY <1>1, <1>3, <1>0, EventsTyped DEF Upsert, StateTypeOK
<1>5. ChunksStay
  BY <1>1, <1>0 DEF Upsert, ChunksStay, StateTypeOK
<1>6. CompletedHasChunks'
  BY <1>1, <1>5, <1>0 DEF Upsert, CompletedHasChunks, ChunksStay, IngestInv, StateTypeOK
<1>. QED  BY <1>1, <1>2, <1>4, <1>5, <1>6, StageInv

LEMMA ReplaceChunksInv ==
  ASSUME IngestInv, NEW w \in Workers, ReplaceChunks(w)
  PROVE  IngestInv'
<1>1. /\ worker[w].pc = "replace" /\ agent = "up" /\ UNCHANGED <<jobs, agent, acked, cli>>
      /\ Holds(w) /\ Src(w) \in Sources /\ StateTypeOK
  BY AtHolds DEF ReplaceChunks, At
<1>0. worker[w].gen \in Gens /\ worker[w].gen # NoGen
  BY <1>1, IngestAssumption DEF IngestInv, HeldRows
<1>2. Stage(w)
  <2>1. CASE Settle(w, "error")
    BY <2>1, SettleStage DEF Results
  <2>2. CASE ~Settle(w, "error")
    <3>1. Goto(w, "complete") /\ chunks'[Src(w)] = worker[w].gen
      BY <2>2, <1>1 DEF ReplaceChunks, StateTypeOK
    <3>. QED  BY <3>1, <1>0, <1>1, GotoStage DEF Pipeline
  <2>. QED  BY <2>1, <2>2
<1>3. worker' \in [Workers -> WorkerState]
  BY <1>2 DEF Stage
<1>4. StateTypeOK'
  BY <1>1, <1>3, <1>0, EventsTyped DEF ReplaceChunks, StateTypeOK
<1>5. ChunksStay
  BY <1>1, <1>0 DEF ReplaceChunks, ChunksStay, StateTypeOK
<1>6. CompletedHasChunks'
  BY <1>1, <1>5, <1>0 DEF ReplaceChunks, CompletedHasChunks, ChunksStay, IngestInv, StateTypeOK
<1>. QED  BY <1>1, <1>2, <1>4, <1>5, <1>6, StageInv

LEMMA MarkCompletedInv ==
  ASSUME IngestInv, NEW w \in Workers, MarkCompleted(w)
  PROVE  IngestInv'
<1>1. /\ worker[w].pc = "complete" /\ agent = "up" /\ UNCHANGED <<jobs, agent, acked, cli>>
      /\ Holds(w) /\ Src(w) \in Sources /\ StateTypeOK
  BY AtHolds DEF MarkCompleted, At
<1>0. chunks[Src(w)] # NoGen /\ chunks' = chunks
  BY <1>1 DEF IngestInv, HeldRows, MarkCompleted
<1>2. Stage(w)
  <2>1. CASE Settle(w, "error")
    BY <2>1, SettleStage DEF Results
  <2>2. CASE Settle(w, "ok")
    BY <2>2, <1>0, SettleStage DEF Results, MarkCompleted
  <2>. QED  BY <2>1, <2>2 DEF MarkCompleted
<1>3. worker' \in [Workers -> WorkerState]
  BY <1>2 DEF Stage
<1>4. StateTypeOK'
  BY <1>1, <1>3, <1>0, EventsTyped DEF MarkCompleted, StateTypeOK, SourceStatus
<1>5. ChunksStay
  BY <1>1, <1>0 DEF MarkCompleted, ChunksStay, StateTypeOK
<1>6. CompletedHasChunks'
  BY <1>1, <1>5, <1>0 DEF MarkCompleted, CompletedHasChunks, ChunksStay, IngestInv, StateTypeOK
<1>. QED  BY <1>1, <1>2, <1>4, <1>5, <1>6, StageInv

LEMMA DistillInv ==
  ASSUME IngestInv, NEW w \in Workers, Distill(w)
  PROVE  IngestInv'
<1>1. /\ worker[w].pc = "distill" /\ agent = "up" /\ UNCHANGED <<jobs, agent, acked, cli>>
      /\ Holds(w) /\ Src(w) \in Sources /\ StateTypeOK
  BY AtHolds DEF Distill, At
<1>2. Stage(w)
  <2>1. jobs[worker[w].job].kind = "facts"
    BY <1>1 DEF IngestInv, HeldRows
  <2>. QED  BY <2>1, SettleStage DEF Distill, Results
<1>3. worker' \in [Workers -> WorkerState]
  BY <1>2 DEF Stage
<1>4. StateTypeOK'
  BY <1>1, <1>3 DEF Distill, StateTypeOK
<1>5. ChunksStay
  BY <1>1 DEF Distill, ChunksStay, StateTypeOK
<1>6. CompletedHasChunks'
  BY <1>1, <1>5 DEF Distill, CompletedHasChunks, ChunksStay, IngestInv, StateTypeOK
<1>. QED  BY <1>1, <1>2, <1>4, <1>5, <1>6, StageInv

-----------------------------------------------------------------------------
(* Handlers, the command and the environment.                               *)

LEMMA EmptyLists == << >> \in Seq(SUBSET SourceStatus)
OBVIOUS

LEMMA RetryTimeReachedKeeps ==
  ASSUME QueueInv, NEW j \in Rows, RetryTimeReached(j)
  PROVE  KeepsRows /\ KeepsRunning
<1>1. jobs[j] \in Job
  BY DEF QueueInv, QueueTypeOK
<1>2. Rows' = Rows /\ jobs'[j] = [jobs[j] EXCEPT !.due = TRUE]
      /\ \A i \in Rows : i # j => jobs'[i] = jobs[i]
  BY DEF RetryTimeReached, Rows
<1>. QED  BY <1>1, <1>2 DEF RetryTimeReached, KeepsRows, KeepsRunning, Job

LEMMA ArchiveInv ==
  ASSUME IngestInv, NEW s \in Sources, Archive(s)
  PROVE  IngestInv'
<1>1. /\ UNCHANGED <<worker, agent, chunks>> /\ QueueInv
      /\ StateTypeOK /\ CompletedHasChunks /\ CliHasTarget
  BY DEF Archive, IngestInv, TypeOK, QueueInv
<1>2. QueueInv' /\ KeepsRows /\ KeepsRunning
  BY <1>1, SameQueue DEF Archive
<1>3. StateTypeOK'
  BY <1>1, EventsTyped DEF Archive, StateTypeOK, SourceStatus
<1>4. CompletedHasChunks'
  BY <1>1 DEF Archive, CompletedHasChunks, StateTypeOK
<1>5. CliHasTarget'
  BY <1>1 DEF Archive, CliHasTarget
<1>6. \A t \in acked' \ acked : chunks[t] # NoGen \/ Work(t)'
  BY <1>1 DEF Archive, CompletedHasChunks
<1>. QED  BY <1>1, <1>2, <1>3, <1>4, <1>5, <1>6, OutsideInv

LEMMA EnqueueInv ==
  ASSUME IngestInv, NEW s \in Sources, Enqueue(s)
  PROVE  IngestInv'
<1>1. /\ UNCHANGED <<worker, agent, chunks>> /\ QueueInv
      /\ StateTypeOK /\ CompletedHasChunks /\ CliHasTarget
  BY DEF Enqueue, IngestInv, TypeOK, QueueInv
<1>2. QueueInv' /\ KeepsRows /\ KeepsRunning
  <2>1. CASE EnqueueJob(s, "ingest")
    BY <2>1, <1>1, IngestAssumption, EnqueueJobInv, EnqueueJobKeeps
  <2>2. CASE UNCHANGED jobs
    BY <2>2, <1>1, SameQueue
  <2>. QED  BY <2>1, <2>2 DEF Enqueue
<1>3. StateTypeOK'
  BY <1>1, EventsTyped DEF Enqueue, StateTypeOK
<1>4. CompletedHasChunks'
  BY <1>1 DEF Enqueue, CompletedHasChunks, StateTypeOK
<1>5. CliHasTarget'
  BY <1>1 DEF Enqueue, CliHasTarget
<1>6. \A t \in acked' \ acked : chunks[t] # NoGen \/ Work(t)'
  BY <1>1, IngestAssumption, EnqueueJobKeeps DEF Enqueue, Work
<1>. QED  BY <1>1, <1>2, <1>3, <1>4, <1>5, <1>6, OutsideInv

LEMMA EnqueueFactsInv ==
  ASSUME IngestInv, NEW s \in Sources, EnqueueFacts(s)
  PROVE  IngestInv'
<1>1. /\ UNCHANGED <<worker, agent, chunks>> /\ QueueInv
      /\ StateTypeOK /\ CompletedHasChunks /\ CliHasTarget
  BY DEF EnqueueFacts, IngestInv, TypeOK, QueueInv
<1>2. QueueInv' /\ KeepsRows /\ KeepsRunning
  <2>1. CASE EnqueueJob(s, "facts")
    BY <2>1, <1>1, IngestAssumption, EnqueueJobInv, EnqueueJobKeeps
  <2>2. CASE UNCHANGED jobs
    BY <2>2, <1>1, SameQueue
  <2>. QED  BY <2>1, <2>2 DEF EnqueueFacts, Write
<1>3. StateTypeOK'
  BY <1>1, EventsTyped DEF EnqueueFacts, Write, StateTypeOK
<1>4. CompletedHasChunks'
  BY <1>1 DEF EnqueueFacts, CompletedHasChunks, StateTypeOK
<1>5. CliHasTarget'
  BY <1>1 DEF EnqueueFacts, CliHasTarget
<1>6. \A t \in acked' \ acked : chunks[t] # NoGen \/ Work(t)'
  BY <1>1 DEF EnqueueFacts
<1>. QED  BY <1>1, <1>2, <1>3, <1>4, <1>5, <1>6, OutsideInv

LEMMA RetryDueInv ==
  ASSUME IngestInv, NEW j \in Rows, RetryDue(j)
  PROVE  IngestInv'
<1>1. /\ UNCHANGED <<worker, agent, chunks>> /\ QueueInv
      /\ StateTypeOK /\ CompletedHasChunks /\ CliHasTarget
  BY DEF RetryDue, IngestInv, TypeOK, QueueInv
<1>2. QueueInv' /\ KeepsRows /\ KeepsRunning
  BY <1>1, RetryTimeReachedInv, RetryTimeReachedKeeps DEF RetryDue
<1>3. StateTypeOK'
  BY <1>1, EventsTyped DEF RetryDue, StateTypeOK
<1>4. CompletedHasChunks'
  BY <1>1 DEF RetryDue, CompletedHasChunks, StateTypeOK
<1>5. CliHasTarget'
  BY <1>1 DEF RetryDue, CliHasTarget
<1>6. \A t \in acked' \ acked : chunks[t] # NoGen \/ Work(t)'
  BY <1>1 DEF RetryDue
<1>. QED  BY <1>1, <1>2, <1>3, <1>4, <1>5, <1>6, OutsideInv

LEMMA CliRetryInv ==
  ASSUME IngestInv, CliRetry
  PROVE  IngestInv'
<1>1. /\ UNCHANGED <<worker, agent, chunks>> /\ QueueInv
      /\ StateTypeOK /\ CompletedHasChunks /\ CliHasTarget
  BY DEF CliRetry, IngestInv, TypeOK, QueueInv
<1>2. QueueInv' /\ KeepsRows /\ KeepsRunning
  BY <1>1, RetryFailedJobsInv, RetryFailedJobsKeeps DEF CliRetry
<1>3. StateTypeOK'
  BY <1>1, EventsTyped DEF CliRetry, StateTypeOK
<1>4. CompletedHasChunks'
  BY <1>1 DEF CliRetry, CompletedHasChunks, StateTypeOK
<1>5. CliHasTarget'
  BY <1>1 DEF CliRetry, CliHasTarget
<1>6. \A t \in acked' \ acked : chunks[t] # NoGen \/ Work(t)'
  BY <1>1 DEF CliRetry
<1>. QED  BY <1>1, <1>2, <1>3, <1>4, <1>5, <1>6, OutsideInv

LEMMA CliReindexSourceInv ==
  ASSUME IngestInv, NEW s \in Sources, CliReindexSource(s)
  PROVE  IngestInv'
<1>1. /\ UNCHANGED <<worker, agent, chunks>> /\ QueueInv
      /\ StateTypeOK /\ CompletedHasChunks /\ CliHasTarget
  BY DEF CliReindexSource, IngestInv, TypeOK, QueueInv
<1>0. cli' \in CliState /\ cli'.cur \in Sources
  BY EmptyLists DEF CliReindexSource, CliIdle, CliState
<1>2. QueueInv' /\ KeepsRows /\ KeepsRunning
  BY <1>1, SameQueue DEF CliReindexSource
<1>3. StateTypeOK'
  BY <1>1, <1>0, EventsTyped DEF CliReindexSource, StateTypeOK, SourceStatus
<1>4. CompletedHasChunks'
  BY <1>1 DEF CliReindexSource, CompletedHasChunks, StateTypeOK
<1>5. CliHasTarget'
  BY <1>1, <1>0 DEF CliHasTarget
<1>6. \A t \in acked' \ acked : chunks[t] # NoGen \/ Work(t)'
  BY <1>1 DEF CliReindexSource
<1>. QED  BY <1>1, <1>2, <1>3, <1>4, <1>5, <1>6, OutsideInv

LEMMA CliReindexFailedInv ==
  ASSUME IngestInv, CliReindexFailed
  PROVE  IngestInv'
<1>1. /\ UNCHANGED <<worker, agent, chunks>> /\ QueueInv
      /\ StateTypeOK /\ CompletedHasChunks /\ CliHasTarget
  BY DEF CliReindexFailed, IngestInv, TypeOK, QueueInv
<1>0. cli' \in CliState /\ (cli' = cli \/ cli'.pc = "list")
  <2>1. <<{"failed"}, {"skipped"}>> \in Seq(SUBSET SourceStatus)
    BY DEF SourceStatus
  <2>. QED  BY <1>1, <2>1 DEF CliReindexFailed, CliIdle, CliState, StateTypeOK
<1>2. QueueInv' /\ KeepsRows /\ KeepsRunning
  BY <1>1, RetryFailedJobsInv, RetryFailedJobsKeeps DEF CliReindexFailed
<1>3. StateTypeOK'
  BY <1>1, <1>0, EventsTyped DEF CliReindexFailed, StateTypeOK
<1>4. CompletedHasChunks'
  BY <1>1 DEF CliReindexFailed, CompletedHasChunks, StateTypeOK
<1>5. CliHasTarget'
  BY <1>1, <1>0 DEF CliHasTarget
<1>6. \A t \in acked' \ acked : chunks[t] # NoGen \/ Work(t)'
  BY <1>1 DEF CliReindexFailed
<1>. QED  BY <1>1, <1>2, <1>3, <1>4, <1>5, <1>6, OutsideInv

LEMMA CliReindexAllInv ==
  ASSUME IngestInv, CliReindexAll
  PROVE  IngestInv'
<1>1. /\ UNCHANGED <<worker, agent, chunks>> /\ QueueInv
      /\ StateTypeOK /\ CompletedHasChunks /\ CliHasTarget
  BY DEF CliReindexAll, IngestInv, TypeOK, QueueInv
<1>0. cli' \in CliState /\ cli'.pc = "create"
  BY EmptyLists DEF CliReindexAll, CliIdle, CliState
<1>2. QueueInv' /\ KeepsRows /\ KeepsRunning
  BY <1>1, SameQueue DEF CliReindexAll
<1>3. StateTypeOK'
  BY <1>1, <1>0, EventsTyped DEF CliReindexAll, StateTypeOK
<1>4. CompletedHasChunks'
  BY <1>1 DEF CliReindexAll, CompletedHasChunks, StateTypeOK
<1>5. CliHasTarget'
  BY <1>1, <1>0 DEF CliHasTarget
<1>6. \A t \in acked' \ acked : chunks[t] # NoGen \/ Work(t)'
  BY <1>1 DEF CliReindexAll
<1>. QED  BY <1>1, <1>2, <1>3, <1>4, <1>5, <1>6, OutsideInv

LEMMA CliCreateInv ==
  ASSUME IngestInv, CliCreate
  PROVE  IngestInv'
<1>1. /\ UNCHANGED <<worker, agent, chunks>> /\ QueueInv
      /\ StateTypeOK /\ CompletedHasChunks /\ CliHasTarget
  BY DEF CliCreate, IngestInv, TypeOK, QueueInv
<1>0. cli' \in CliState /\ cli'.pc = "list"
  <2>1. <<SourceStatus \ {"absent"}>> \in Seq(SUBSET SourceStatus)
    OBVIOUS
  <2>. QED  BY <1>1, <2>1 DEF CliCreate, CliState, StateTypeOK
<1>2. QueueInv' /\ KeepsRows /\ KeepsRunning
  BY <1>1, SameQueue DEF CliCreate
<1>3. StateTypeOK'
  BY <1>1, <1>0, EventsTyped DEF CliCreate, StateTypeOK
<1>4. CompletedHasChunks'
  BY <1>1 DEF CliCreate, CompletedHasChunks, StateTypeOK
<1>5. CliHasTarget'
  BY <1>1, <1>0 DEF CliHasTarget
<1>6. \A t \in acked' \ acked : chunks[t] # NoGen \/ Work(t)'
  BY <1>1 DEF CliCreate
<1>. QED  BY <1>1, <1>2, <1>3, <1>4, <1>5, <1>6, OutsideInv

LEMMA CliListInv ==
  ASSUME IngestInv, CliList
  PROVE  IngestInv'
<1>1. /\ UNCHANGED <<worker, agent, chunks>> /\ QueueInv
      /\ StateTypeOK /\ CompletedHasChunks /\ CliHasTarget
  BY DEF CliList, IngestInv, TypeOK, QueueInv
<1>0. cli' \in CliState /\ cli'.pc # "enqueue"
  <2>1. CASE cli.lists = << >>
    BY <2>1, EmptyLists DEF CliList, CliIdle, CliState
  <2>2. CASE cli.lists # << >>
    <3>1. Tail(cli.lists) \in Seq(SUBSET SourceStatus)
      BY <1>1, <2>2 DEF StateTypeOK, CliState
    <3>2. cli' = [cli EXCEPT !.pc = "mark", !.lists = Tail(@),
                             !.todo = {s \in Sources : sources[s] \in Head(cli.lists)}]
      BY <2>2 DEF CliList
    <3>3. {s \in Sources : sources[s] \in Head(cli.lists)} \in SUBSET Sources
      OBVIOUS
    <3>. QED  BY <1>1, <3>1, <3>2, <3>3 DEF CliState, StateTypeOK
  <2>. QED  BY <2>1, <2>2
<1>2. QueueInv' /\ KeepsRows /\ KeepsRunning
  BY <1>1, SameQueue DEF CliList
<1>3. StateTypeOK'
  BY <1>1, <1>0, EventsTyped DEF CliList, StateTypeOK
<1>4. CompletedHasChunks'
  BY <1>1 DEF CliList, CompletedHasChunks, StateTypeOK
<1>5. CliHasTarget'
  BY <1>1, <1>0 DEF CliHasTarget
<1>6. \A t \in acked' \ acked : chunks[t] # NoGen \/ Work(t)'
  BY <1>1 DEF CliList
<1>. QED  BY <1>1, <1>2, <1>3, <1>4, <1>5, <1>6, OutsideInv

LEMMA CliMarkInv ==
  ASSUME IngestInv, CliMark
  PROVE  IngestInv'
<1>1. /\ UNCHANGED <<worker, agent, chunks>> /\ QueueInv
      /\ StateTypeOK /\ CompletedHasChunks /\ CliHasTarget
  BY DEF CliMark, IngestInv, TypeOK, QueueInv
<1>0. cli' \in CliState /\ (cli'.pc = "enqueue" => cli'.cur \in Sources)
  <2>1. CASE cli' = [cli EXCEPT !.pc = "list"]
    BY <1>1, <2>1 DEF CliState, StateTypeOK
  <2>2. CASE \E s \in cli.todo : cli' = [cli EXCEPT !.pc = "enqueue", !.cur = s, !.todo = @ \ {s}]
    <3>1. PICK s \in cli.todo : cli' = [cli EXCEPT !.pc = "enqueue", !.cur = s, !.todo = @ \ {s}]
      BY <2>2
    <3>2. cli \in CliState /\ s \in Sources /\ cli.todo \ {s} \in SUBSET Sources
      BY <1>1 DEF CliState, StateTypeOK
    <3>. QED  BY <3>1, <3>2 DEF CliState
  <2>. QED  BY <2>1, <2>2 DEF CliMark
<1>2. QueueInv' /\ KeepsRows /\ KeepsRunning
  BY <1>1, SameQueue DEF CliMark
<1>3. StateTypeOK'
  <2>1. sources' \in [Sources -> SourceStatus]
    BY <1>1 DEF CliMark, StateTypeOK, SourceStatus, CliState
  <2>. QED  BY <1>1, <1>0, <2>1 DEF CliMark, StateTypeOK
<1>4. CompletedHasChunks'
  BY <1>1 DEF CliMark, CompletedHasChunks, StateTypeOK
<1>5. CliHasTarget'
  BY <1>1, <1>0 DEF CliHasTarget
<1>6. \A t \in acked' \ acked : chunks[t] # NoGen \/ Work(t)'
  BY <1>1 DEF CliMark
<1>. QED  BY <1>1, <1>2, <1>3, <1>4, <1>5, <1>6, OutsideInv

LEMMA CliEnqueueInv ==
  ASSUME IngestInv, CliEnqueue
  PROVE  IngestInv'
<1>1. /\ UNCHANGED <<worker, agent, chunks>> /\ QueueInv
      /\ StateTypeOK /\ CompletedHasChunks /\ CliHasTarget
  BY DEF CliEnqueue, IngestInv, TypeOK, QueueInv
<1>0. cli' \in CliState /\ cli'.pc = "mark" /\ cli.cur \in Sources
  BY <1>1 DEF CliEnqueue, CliState, StateTypeOK, CliHasTarget
<1>2. QueueInv' /\ KeepsRows /\ KeepsRunning
  BY <1>1, <1>0, IngestAssumption, EnqueueJobInv, EnqueueJobKeeps DEF CliEnqueue
<1>3. StateTypeOK'
  BY <1>1, <1>0, EventsTyped DEF CliEnqueue, StateTypeOK
<1>4. CompletedHasChunks'
  BY <1>1 DEF CliEnqueue, CompletedHasChunks, StateTypeOK
<1>5. CliHasTarget'
  BY <1>1, <1>0 DEF CliHasTarget
<1>6. \A t \in acked' \ acked : chunks[t] # NoGen \/ Work(t)'
  BY <1>1 DEF CliEnqueue
<1>. QED  BY <1>1, <1>2, <1>3, <1>4, <1>5, <1>6, OutsideInv

LEMMA InterruptInv ==
  ASSUME IngestInv, Interrupt
  PROVE  IngestInv'
<1>1. /\ UNCHANGED <<worker, agent, chunks>> /\ QueueInv
      /\ StateTypeOK /\ CompletedHasChunks /\ CliHasTarget
  BY DEF Interrupt, IngestInv, TypeOK, QueueInv
<1>2. QueueInv' /\ KeepsRows /\ KeepsRunning
  BY <1>1, SameQueue DEF Interrupt
<1>3. StateTypeOK'
  BY <1>1, EmptyLists, EventsTyped DEF Interrupt, StateTypeOK, CliIdle, CliState
<1>4. CompletedHasChunks'
  BY <1>1 DEF Interrupt, CompletedHasChunks, StateTypeOK
<1>5. CliHasTarget'
  BY <1>1 DEF Interrupt, CliIdle, CliHasTarget
<1>6. \A t \in acked' \ acked : chunks[t] # NoGen \/ Work(t)'
  BY <1>1 DEF Interrupt
<1>. QED  BY <1>1, <1>2, <1>3, <1>4, <1>5, <1>6, OutsideInv

LEMMA OutageInv ==
  ASSUME IngestInv, NEW b \in Backends, Outage(b)
  PROVE  IngestInv'
<1>1. /\ UNCHANGED <<worker, agent, chunks>> /\ QueueInv
      /\ StateTypeOK /\ CompletedHasChunks /\ CliHasTarget
  BY DEF Outage, IngestInv, TypeOK, QueueInv
<1>2. QueueInv' /\ KeepsRows /\ KeepsRunning
  BY <1>1, SameQueue DEF Outage
<1>3. StateTypeOK'
  BY <1>1, EventsTyped DEF Outage, StateTypeOK
<1>4. CompletedHasChunks'
  BY <1>1 DEF Outage, CompletedHasChunks, StateTypeOK
<1>5. CliHasTarget'
  BY <1>1 DEF Outage, CliHasTarget
<1>6. \A t \in acked' \ acked : chunks[t] # NoGen \/ Work(t)'
  BY <1>1 DEF Outage
<1>. QED  BY <1>1, <1>2, <1>3, <1>4, <1>5, <1>6, OutsideInv

LEMMA RecoverInv ==
  ASSUME IngestInv, NEW b \in Backends, Recover(b)
  PROVE  IngestInv'
<1>1. /\ UNCHANGED <<worker, agent, chunks>> /\ QueueInv
      /\ StateTypeOK /\ CompletedHasChunks /\ CliHasTarget
  BY DEF Recover, IngestInv, TypeOK, QueueInv
<1>2. QueueInv' /\ KeepsRows /\ KeepsRunning
  BY <1>1, SameQueue DEF Recover
<1>3. StateTypeOK'
  BY <1>1, EventsTyped DEF Recover, StateTypeOK
<1>4. CompletedHasChunks'
  BY <1>1 DEF Recover, CompletedHasChunks, StateTypeOK
<1>5. CliHasTarget'
  BY <1>1 DEF Recover, CliHasTarget
<1>6. \A t \in acked' \ acked : chunks[t] # NoGen \/ Work(t)'
  BY <1>1 DEF Recover
<1>. QED  BY <1>1, <1>2, <1>3, <1>4, <1>5, <1>6, OutsideInv

-----------------------------------------------------------------------------
(* The ends of a worker's run, and its beginning.                           *)

\* Every row but the one w works on stays as it is.
OtherRowsStay(w) ==
  \A i \in Rows : i # worker[w].job => i \in Rows' /\ jobs'[i] = jobs[i]

LEMMA ReleaseInv ==
  ASSUME IngestInv, NEW w \in Workers, UNCHANGED <<agent, chunks, acked, cli>>, agent = "up",
         Others(w), worker'[w].pc \in {"idle", "park"}, worker[w].pc = "settle",
         QueueInv', OtherRowsStay(w), StateTypeOK', CompletedHasChunks',
         \A s \in acked : chunks[s] # NoGen \/ Work(s)'
  PROVE  IngestInv'
<1>1. \A v \in Workers : v # w /\ Holds(v) =>
        worker[v].job \in Rows' /\ jobs'[worker[v].job] = jobs[worker[v].job]
  <2>1. Holds(w)
    BY DEF Holds
  <2>. QED  BY <2>1 DEF IngestInv, HeldApart, HeldRows, OtherRowsStay
<1>2. HeldRows' /\ HeldApart' /\ DownIdle'
  BY <1>1, HeldRelease
<1>3. CliHasTarget' /\ AckedKept'
  BY DEF IngestInv, CliHasTarget, AckedKept, Work
<1>. QED  BY <1>2, <1>3 DEF IngestInv, TypeOK, QueueInv

(* Moving one row to another state, with its source and kind, keeps rows.   *)
LEMMA UpdatedRowKeeps ==
  ASSUME QueueInv, NEW j \in Rows, Rows' = Rows,
         \A i \in Rows : i # j => jobs'[i] = jobs[i],
         jobs'[j].source = jobs[j].source, jobs'[j].kind = jobs[j].kind
  PROVE  KeepsRows
BY DEF KeepsRows

LEMMA RescheduleJobKeeps ==
  ASSUME QueueInv, NEW j \in Rows, NEW hard, RescheduleJob(j, hard) \/ FailJob(j, hard)
  PROVE  KeepsRows /\ \A i \in Rows : i # j => jobs'[i] = jobs[i]
<1>1. jobs[j] \in Job
  BY DEF QueueInv, QueueTypeOK
<1>2. CASE RescheduleJob(j, hard)
  <2>1. /\ Rows' = Rows /\ \A i \in Rows : i # j => jobs'[i] = jobs[i]
        /\ jobs'[j].source = jobs[j].source /\ jobs'[j].kind = jobs[j].kind
    BY <1>1, <1>2 DEF RescheduleJob, Rows, Job
  <2>. QED  BY <2>1, UpdatedRowKeeps
<1>3. CASE FailJob(j, hard)
  <2>1. /\ Rows' = Rows /\ \A i \in Rows : i # j => jobs'[i] = jobs[i]
        /\ jobs'[j].source = jobs[j].source /\ jobs'[j].kind = jobs[j].kind
    BY <1>1, <1>3 DEF FailJob, Rows, Job
  <2>. QED  BY <2>1, UpdatedRowKeeps
<1>. QED  BY <1>2, <1>3

(* The row of a finished ingest job is not missed: its source has chunks.   *)
LEMMA FinishJobKeepsWork ==
  ASSUME IngestInv, NEW w \in Workers, FinishJob(w), NEW s, chunks[s] = NoGen, Work(s)
  PROVE  Work(s)'
<1>. DEFINE j == worker[w].job
<1>1. /\ worker[w].pc = "settle" /\ worker[w].result = "ok" /\ Holds(w)
      /\ j \in Rows /\ jobs[j].source = Src(w)
  BY AtHolds DEF FinishJob, At
<1>2. PICK i \in Rows : jobs[i].source = s /\ jobs[i].kind = "ingest"
  BY DEF Work, HasActive, HasParked
<1>3. i # j
  BY <1>1, <1>2 DEF IngestInv, HeldRows
<1>4. i \in Rows' /\ jobs'[i] = jobs[i]
  BY <1>3 DEF FinishJob, Write, CompleteJob, Rows
<1>5. jobs[i].status \in JobStatus
  BY <1>2 DEF IngestInv, TypeOK, QueueTypeOK, Job
<1>. QED  BY <1>2, <1>4, <1>5 DEF Work, HasActive, HasParked, IsActive, JobStatus

LEMMA FinishJobInv ==
  ASSUME IngestInv, NEW w \in Workers, FinishJob(w)
  PROVE  IngestInv'
<1>. DEFINE j == worker[w].job
<1>1. /\ worker[w].pc = "settle" /\ worker[w].result = "ok" /\ agent = "up"
      /\ UNCHANGED <<agent, chunks, acked, cli, sources>> /\ QueueInv
      /\ Holds(w) /\ Src(w) \in Sources /\ StateTypeOK /\ j \in Rows
      /\ jobs[j].source = Src(w)
  BY AtHolds DEF FinishJob, At, IngestInv, TypeOK, QueueInv
<1>2. worker' \in [Workers -> WorkerState] /\ worker'[w].pc = "idle" /\ Others(w)
  BY <1>1, IdleEffect, IngestAssumption DEF FinishJob
<1>3. StateTypeOK'
  BY <1>1, <1>2, EventsTyped DEF FinishJob, Write, StateTypeOK
<1>4. CompletedHasChunks'
  BY <1>1 DEF IngestInv, CompletedHasChunks
<1>5. QueueInv' /\ OtherRowsStay(w)
  <2>1. CASE CompleteJob(j)
    BY <2>1, <1>1, CompleteJobInv DEF CompleteJob, OtherRowsStay, Rows
  <2>2. CASE UNCHANGED jobs
    BY <2>2, <1>1, SameQueue DEF OtherRowsStay, Rows
  <2>. QED  BY <2>1, <2>2 DEF FinishJob, Write
<1>6. \A s \in acked : chunks[s] # NoGen \/ Work(s)'
  BY FinishJobKeepsWork DEF IngestInv, AckedKept, Work
<1>. QED  BY <1>1, <1>2, <1>3, <1>4, <1>5, <1>6, ReleaseInv

LEMMA RetryLaterInv ==
  ASSUME IngestInv, NEW w \in Workers, RetryLater(w)
  PROVE  IngestInv'
<1>. DEFINE j == worker[w].job
            hard == worker[w].result = "error"
<1>1. /\ worker[w].pc = "settle" /\ agent = "up"
      /\ UNCHANGED <<agent, chunks, acked, cli, sources>> /\ QueueInv
      /\ StateTypeOK /\ j \in Rows /\ IsActive(j)
  BY AtHolds DEF RetryLater, At, IngestInv, TypeOK, QueueInv, IsActive
<1>2. worker' \in [Workers -> WorkerState] /\ worker'[w].pc = "idle" /\ Others(w)
  BY <1>1, IdleEffect, IngestAssumption DEF RetryLater
<1>3. StateTypeOK'
  BY <1>1, <1>2, EventsTyped DEF RetryLater, Write, StateTypeOK
<1>4. CompletedHasChunks'
  BY <1>1 DEF IngestInv, CompletedHasChunks
<1>5. QueueInv' /\ OtherRowsStay(w) /\ KeepsRows
  <2>1. CASE RescheduleJob(j, hard)
    BY <2>1, <1>1, RescheduleJobInv, RescheduleJobKeeps DEF OtherRowsStay, KeepsRows
  <2>2. CASE UNCHANGED jobs
    BY <2>2, <1>1, SameQueue DEF OtherRowsStay, Rows
  <2>. QED  BY <2>1, <2>2 DEF RetryLater, Write
<1>6. \A s \in acked : chunks[s] # NoGen \/ Work(s)'
  BY <1>1, <1>5, KeptRowsKeepWork DEF IngestInv, AckedKept, Work
<1>. QED  BY <1>1, <1>2, <1>3, <1>4, <1>5, <1>6, ReleaseInv

LEMMA ParkInv ==
  ASSUME IngestInv, NEW w \in Workers, Park(w)
  PROVE  IngestInv'
<1>. DEFINE j == worker[w].job
            hard == worker[w].result = "error"
<1>1. /\ worker[w].pc = "settle" /\ agent = "up"
      /\ UNCHANGED <<agent, chunks, acked, cli, sources>> /\ QueueInv
      /\ StateTypeOK /\ j \in Rows /\ IsActive(j)
  BY AtHolds DEF Park, At, IngestInv, TypeOK, QueueInv, IsActive
<1>2. worker' \in [Workers -> WorkerState] /\ worker'[w].pc = "park" /\ Others(w)
  <2>1. "park" \in Steps
    BY DEF Steps
  <2>. QED  BY <1>1, <2>1, GotoEffect DEF Park
<1>3. StateTypeOK'
  BY <1>1, <1>2, EventsTyped DEF Park, Write, StateTypeOK
<1>4. CompletedHasChunks'
  BY <1>1 DEF IngestInv, CompletedHasChunks
<1>5. QueueInv' /\ OtherRowsStay(w) /\ KeepsRows
  <2>1. CASE FailJob(j, hard)
    BY <2>1, <1>1, FailJobInv, RescheduleJobKeeps DEF OtherRowsStay, KeepsRows
  <2>2. CASE UNCHANGED jobs
    BY <2>2, <1>1, SameQueue DEF OtherRowsStay, Rows
  <2>. QED  BY <2>1, <2>2 DEF Park, Write
<1>6. \A s \in acked : chunks[s] # NoGen \/ Work(s)'
  BY <1>1, <1>5, KeptRowsKeepWork DEF IngestInv, AckedKept, Work
<1>. QED  BY <1>1, <1>2, <1>3, <1>4, <1>5, <1>6, ReleaseInv

LEMMA MarkParkedInv ==
  ASSUME IngestInv, NEW w \in Workers, MarkParked(w)
  PROVE  IngestInv'
<1>1. /\ UNCHANGED <<jobs, agent, chunks, acked, cli>> /\ agent = "up" /\ QueueInv
      /\ StateTypeOK /\ worker[w].pc = "park"
  BY DEF MarkParked, At, IngestInv, TypeOK, QueueInv
<1>2. worker' \in [Workers -> WorkerState] /\ worker'[w].pc = "idle" /\ Others(w)
  BY <1>1, IdleEffect, IngestAssumption DEF MarkParked
<1>3. QueueInv' /\ KeepsRunning
  BY <1>1, SameQueue
<1>s. /\ sources' \in [Sources -> SourceStatus] /\ events' \in 0..MaxEvents
      /\ \A t \in Sources : sources'[t] = "completed" => sources[t] = "completed"
  <2>1. CASE Src(w) \in Sources
    <3>1. PICK status \in {"skipped", "failed"} : SetStatus(Src(w), status)
      BY DEF MarkParked
    <3>2. status \in SourceStatus \ {"completed"}
      BY DEF SourceStatus
    <3>. QED  BY <1>1, <2>1, <3>1, <3>2, SetStatusTyped
  <2>2. CASE Src(w) \notin Sources
    <3>1. \A st : [sources EXCEPT ![Src(w)] = st] = sources
      BY <1>1, <2>2 DEF StateTypeOK
    <3>2. sources' = sources /\ events' \in 0..MaxEvents
      <4>1. CASE UNCHANGED events
        BY <1>1, <3>1, <4>1 DEF MarkParked, SetStatus, StateTypeOK, Happens
      <4>2. CASE ~UNCHANGED events
        <5>1. UNCHANGED sources /\ Happens("write_failed")
          BY <4>2 DEF MarkParked, SetStatus
        <5>. QED  BY <1>1, <5>1, EventsTyped
      <4>. QED  BY <4>1, <4>2
    <3>. QED  BY <1>1, <3>2 DEF StateTypeOK
  <2>. QED  BY <2>1, <2>2
<1>4. StateTypeOK'
  BY <1>1, <1>2, <1>s DEF MarkParked, StateTypeOK
<1>5. HeldRows' /\ HeldApart' /\ DownIdle'
  <2>1. \A v \in Workers : v # w /\ Holds(v) =>
          worker[v].job \in Rows' /\ jobs'[worker[v].job] = jobs[worker[v].job]
    BY <1>1 DEF IngestInv, HeldRows, Rows
  <2>. QED  BY <1>1, <1>2, <2>1, HeldRelease
<1>6. CompletedHasChunks' /\ CliHasTarget'
  BY <1>1, <1>s DEF IngestInv, CompletedHasChunks, CliHasTarget
<1>7. AckedKept'
  BY <1>1, SameQueue DEF IngestInv, AckedKept
<1>. QED  BY <1>3, <1>4, <1>5, <1>6, <1>7 DEF IngestInv, TypeOK, QueueInv

LEMMA ClaimInv ==
  ASSUME IngestInv, NEW w \in Workers, NEW j \in Rows, Claim(w, j)
  PROVE  IngestInv'
<1>. DEFINE new == [pc |-> IF jobs[j].kind = "facts" THEN "distill" ELSE "load",
                    job |-> j, src |-> jobs[j].source, gen |-> NoGen, result |-> "none"]
<1>1. /\ UNCHANGED <<agent, chunks, acked, cli, sources, events>> /\ agent = "up" /\ QueueInv
      /\ StateTypeOK /\ worker[w].pc = "idle" /\ ~Holds(w) /\ jobs[j].status = "pending"
  BY DEF Claim, ClaimJob, Claimable, At, IngestInv, TypeOK, QueueInv, Holds
<1>2. jobs[j] \in Job /\ j \in JobIds /\ jobs[j].source \in Sources
      /\ jobs[j].kind \in {"ingest", "facts"}
  BY <1>1, IngestAssumption DEF QueueInv, QueueTypeOK, Job
<1>3. worker' = [worker EXCEPT ![w] = new] /\ new \in WorkerState
  BY <1>2 DEF Claim, WorkerState, Steps, Pipeline, Results
<1>4. /\ worker' \in [Workers -> WorkerState] /\ worker'[w] = new /\ Others(w)
  BY <1>1, <1>3 DEF StateTypeOK, Others
<1>5. /\ Rows' = Rows /\ \A i \in Rows : i # j => jobs'[i] = jobs[i]
      /\ jobs'[j].source = jobs[j].source /\ jobs'[j].kind = jobs[j].kind
      /\ jobs'[j].status = "running"
  BY <1>2 DEF Claim, ClaimJob, Rows, Job
<1>6. QueueInv' /\ KeepsRows /\ KeepsRunning
  BY <1>1, <1>5, ClaimJobInv, UpdatedRowKeeps DEF Claim, KeepsRunning
<1>7. StateTypeOK'
  BY <1>1, <1>4 DEF Claim, StateTypeOK
<1>8. HeldRows'
  <2>. SUFFICES ASSUME NEW v \in Workers, Holds(v)'
                PROVE  /\ worker'[v].job \in Rows'
                       /\ jobs'[worker'[v].job].status = "running"
                       /\ jobs'[worker'[v].job].source = worker'[v].src
                       /\ worker'[v].pc \in Pipeline => jobs'[worker'[v].job].kind = "ingest"
                       /\ worker'[v].pc = "distill" => jobs'[worker'[v].job].kind = "facts"
                       /\ worker'[v].pc = "replace" => worker'[v].gen \in Gens
                       /\ worker'[v].pc = "complete" => chunks'[worker'[v].src] # NoGen
                       /\ worker'[v].pc = "settle" /\ worker'[v].result = "ok"
                            /\ jobs'[worker'[v].job].kind = "ingest"
                            => chunks'[worker'[v].src] # NoGen
    BY DEF HeldRows, Src
  <2>1. CASE v = w
    BY <2>1, <1>2, <1>4, <1>5 DEF Pipeline
  <2>2. CASE v # w
    <3>1. worker'[v] = worker[v] /\ Holds(v)
      BY <2>2, <1>4 DEF Others, Holds
    <3>. QED  BY <3>1, <1>1, <1>5 DEF IngestInv, HeldRows, Src
  <2>. QED  BY <2>1, <2>2
<1>9. HeldApart' /\ DownIdle'
  <2>1. \A v \in Workers : v # w /\ Holds(v)' => Holds(v) /\ worker'[v] = worker[v]
                                                /\ worker'[v].job # j
    BY <1>1, <1>4 DEF Others, Holds, IngestInv, HeldRows
  <2>. QED  BY <2>1, <1>1, <1>4 DEF IngestInv, HeldApart, DownIdle
<1>10. CompletedHasChunks' /\ CliHasTarget'
  BY <1>1 DEF IngestInv, CompletedHasChunks, CliHasTarget
<1>11. AckedKept'
  BY <1>1, <1>6, KeptRowsKeepWork DEF IngestInv, AckedKept, Work
<1>. QED  BY <1>6, <1>7, <1>8, <1>9, <1>10, <1>11 DEF IngestInv, TypeOK, QueueInv

LEMMA CrashInv ==
  ASSUME IngestInv, Crash
  PROVE  IngestInv'
<1>1. UNCHANGED <<jobs, chunks, acked, cli, sources>> /\ StateTypeOK
  BY DEF Crash, IngestInv, TypeOK
<1>2. worker' \in [Workers -> WorkerState] /\ \A w \in Workers : worker'[w].pc = "idle"
  BY IngestAssumption DEF Crash, Idle, WorkerState, Steps, Results
<1>3. QueueInv'
  BY <1>1, SameQueue DEF IngestInv, TypeOK, QueueInv
<1>4. StateTypeOK'
  BY <1>1, <1>2, EventsTyped DEF Crash, StateTypeOK
<1>5. HeldRows' /\ HeldApart' /\ DownIdle'
  BY <1>2 DEF HeldRows, HeldApart, DownIdle, Holds
<1>6. CompletedHasChunks' /\ CliHasTarget'
  BY <1>1 DEF IngestInv, CompletedHasChunks, CliHasTarget
<1>7. AckedKept'
  BY <1>1, SameQueue DEF IngestInv, AckedKept
<1>. QED  BY <1>3, <1>4, <1>5, <1>6, <1>7 DEF IngestInv, TypeOK, QueueInv

LEMMA RestartInv ==
  ASSUME IngestInv, Restart
  PROVE  IngestInv'
<1>1. /\ UNCHANGED <<chunks, acked, cli, sources, worker>> /\ StateTypeOK /\ QueueInv
      /\ agent = "down" /\ agent' = "up"
  BY DEF Restart, IngestInv, TypeOK, QueueInv
<1>2. \A w \in Workers : worker'[w].pc = "idle"
  BY <1>1 DEF IngestInv, DownIdle
<1>3. QueueInv' /\ KeepsRows
  <2>1. CASE ReclaimRunningJobs
    <3>1. QueueInv'
      BY <2>1, <1>1, ReclaimInv
    <3>2. ASSUME NEW j \in Rows
          PROVE  jobs'[j].source = jobs[j].source /\ jobs'[j].kind = jobs[j].kind
      <4>1. jobs[j] \in Job
        BY <1>1 DEF QueueInv, QueueTypeOK
      <4>. QED  BY <2>1, <4>1 DEF ReclaimRunningJobs, Job
    <3>. QED  BY <2>1, <3>1, <3>2 DEF ReclaimRunningJobs, KeepsRows, Rows
  <2>2. CASE UNCHANGED jobs
    BY <2>2, <1>1, SameQueue
  <2>. QED  BY <2>1, <2>2 DEF Restart, Write
<1>4. StateTypeOK'
  BY <1>1, EventsTyped DEF Restart, Write, StateTypeOK
<1>5. HeldRows' /\ HeldApart' /\ DownIdle'
  BY <1>1, <1>2 DEF HeldRows, HeldApart, DownIdle, Holds
<1>6. CompletedHasChunks' /\ CliHasTarget'
  BY <1>1 DEF IngestInv, CompletedHasChunks, CliHasTarget
<1>7. AckedKept'
  BY <1>1, <1>3, KeptRowsKeepWork DEF IngestInv, AckedKept, Work
<1>. QED  BY <1>3, <1>4, <1>5, <1>6, <1>7 DEF IngestInv, TypeOK, QueueInv

LEMMA InitInv ==
  ASSUME Init
  PROVE  IngestInv
<1>. USE IngestAssumption
<1>1. QueueInv
  BY QueueInitInv DEF Init
<1>2. StateTypeOK
  <2>1. CliIdle \in CliState
    BY EmptyLists DEF CliState, CliIdle
  <2>2. Idle \in WorkerState
    BY DEF WorkerState, Idle, Steps, Results
  <2>3. worker \in [Workers -> WorkerState] /\ cli \in CliState
    BY <2>1, <2>2 DEF Init
  <2>4. events \in 0..MaxEvents /\ acked \in SUBSET Sources /\ up \in SUBSET Backends
    BY DEF Init
  <2>5. /\ sources \in [Sources -> SourceStatus] /\ index \in [Sources -> SUBSET Gens]
        /\ chunks \in [Sources -> Gens \cup {NoGen}]
        /\ arriving \in [Sources -> {"none", "ingest", "facts"}]
    BY DEF Init, SourceStatus
  <2>. QED  BY <2>3, <2>4, <2>5 DEF Init, StateTypeOK
<1>3. HeldRows /\ HeldApart /\ DownIdle
  BY DEF Init, HeldRows, HeldApart, DownIdle, Holds, Idle
<1>4. CompletedHasChunks /\ CliHasTarget /\ AckedKept
  BY DEF Init, CompletedHasChunks, CliHasTarget, AckedKept, CliIdle
<1>. QED  BY <1>1, <1>2, <1>3, <1>4 DEF IngestInv, TypeOK, QueueInv

-----------------------------------------------------------------------------
LEMMA WorkerStepInv ==
  ASSUME IngestInv, NEW w \in Workers, WorkerStep(w)
  PROVE  IngestInv'
BY LoadSourceInv, ExtractInv, EnsureCollectionInv, EmbedInv, UpsertInv, ReplaceChunksInv,
   MarkCompletedInv, DistillInv, FinishJobInv, RetryLaterInv, ParkInv, MarkParkedInv
   DEF WorkerStep

LEMMA CliStepInv ==
  ASSUME IngestInv, CliStep
  PROVE  IngestInv'
BY CliCreateInv, CliListInv, CliMarkInv, CliEnqueueInv DEF CliStep

LEMMA StutterInv ==
  ASSUME IngestInv, UNCHANGED vars
  PROVE  IngestInv'
<1>1. QueueInv' /\ KeepsRows /\ KeepsRunning
  BY SameQueue DEF vars, IngestInv, TypeOK, QueueInv
<1>2. UNCHANGED <<worker, agent, chunks, acked, cli, sources>> /\ StateTypeOK'
  BY DEF vars, IngestInv, TypeOK, StateTypeOK
<1>3. CompletedHasChunks' /\ CliHasTarget'
  BY <1>2 DEF IngestInv, CompletedHasChunks, CliHasTarget
<1>. QED  BY <1>1, <1>2, <1>3, OutsideInv

LEMMA NextInv ==
  ASSUME IngestInv, [Next]_vars
  PROVE  IngestInv'
<1>1. ASSUME NEW s \in Sources, Archive(s) \/ Enqueue(s) \/ EnqueueFacts(s) \/ CliReindexSource(s)
      PROVE  IngestInv'
  BY <1>1, ArchiveInv, EnqueueInv, EnqueueFactsInv, CliReindexSourceInv
<1>2. ASSUME NEW w \in Workers, WorkerStep(w) \/ \E j \in Rows : Claim(w, j)
      PROVE  IngestInv'
  BY <1>2, WorkerStepInv, ClaimInv
<1>3. ASSUME NEW j \in Rows, RetryDue(j)
      PROVE  IngestInv'
  BY <1>3, RetryDueInv
<1>4. CASE CliRetry \/ CliReindexFailed \/ CliReindexAll \/ CliStep
  BY <1>4, CliRetryInv, CliReindexFailedInv, CliReindexAllInv, CliStepInv
<1>5. ASSUME NEW b \in Backends, Outage(b) \/ Recover(b)
      PROVE  IngestInv'
  BY <1>5, OutageInv, RecoverInv
<1>6. CASE Interrupt \/ Crash \/ Restart
  BY <1>6, InterruptInv, CrashInv, RestartInv
<1>7. CASE UNCHANGED vars
  BY <1>7, StutterInv
<1>. QED  BY <1>1, <1>2, <1>3, <1>4, <1>5, <1>6, <1>7 DEF Next

(* The inductive invariant holds of every behaviour of ingestion.           *)
THEOREM IngestInvariant == Spec => []IngestInv
<1>1. Init => IngestInv
  BY InitInv
<1>2. IngestInv /\ [Next]_vars => IngestInv'
  BY NextInv
<1>. QED  BY <1>1, <1>2, PTL DEF Spec

(* Every variable, and every row of the queue, stays within its type.       *)
THEOREM TypeCorrect == Spec => []TypeOK
<1>1. IngestInv => TypeOK
  BY DEF IngestInv
<1>. QED  BY <1>1, IngestInvariant, PTL

(* Two workers never run the pipeline of the same source at once, whatever  *)
(* the crashes, reclaimed jobs, retries and reindex commands (ClaimJob, the *)
(* active index, ReclaimRunningJobs).                                       *)
THEOREM NoConcurrentRuns == Spec => []OneRunPerSource
<1>1. ASSUME IngestInv
      PROVE  OneRunPerSource
  <2>. SUFFICES ASSUME NEW v \in Workers, NEW w \in Workers,
                       worker[v].pc \in Pipeline, worker[w].pc \in Pipeline, Src(v) = Src(w)
                PROVE  v = w
    BY DEF OneRunPerSource
  <2>1. Holds(v) /\ Holds(w)
    BY DEF Holds, Pipeline
  <2>2. /\ worker[v].job \in Rows /\ IsActive(worker[v].job)
        /\ worker[w].job \in Rows /\ IsActive(worker[w].job)
        /\ SameWork(worker[v].job, worker[w].job)
    BY <1>1, <2>1 DEF IngestInv, HeldRows, IsActive, SameWork
  <2>3. worker[v].job = worker[w].job
    BY <1>1, <2>2 DEF IngestInv, ActiveUnique
  <2>. QED  BY <1>1, <2>1, <2>3 DEF IngestInv, HeldApart
<1>. QED  BY <1>1, IngestInvariant, PTL

(* No source that Ingest has acknowledged is ever lost: it has chunks, or a *)
(* job in the queue that is active or parked for a human.                   *)
THEOREM AcknowledgedKept == Spec => []AckedKept
<1>1. IngestInv => AckedKept
  BY DEF IngestInv
<1>. QED  BY <1>1, IngestInvariant, PTL


-------------------------------------------------------------------------------
(* Ingestion implements ArchivePromise; and, as long as nobody drops the       *)
(* whole collection, what search finds it goes on finding; and, as long as     *)
(* writes to the queue do not fail, no job is left running.                    *)

\* A parked row is a row that was there before, on the same work.
ParkedWereRows ==
  \A j \in Rows' : jobs'[j].status = "failed" =>
    j \in Rows /\ jobs'[j].source = jobs[j].source /\ jobs'[j].kind = jobs[j].kind
\* Work on a source that has no chunks yet is not dropped.
WorkStays == \A s \in Sources : chunks[s] = NoGen /\ Work(s) => Work(s)'
\* Chunks appear for a source that an active job is about.
ChunksEarned ==
  \A s \in Sources : chunks[s] = NoGen /\ chunks'[s] # NoGen => HasActive(s, "ingest")

LEMMA LawfulStep ==
  ASSUME IngestInv, ChunksStay, ChunksEarned, WorkStays, ParkedWereRows
  PROVE  Promise!Next
<1>1. \A s \in Sources : HasParked(s, "ingest")' => Work(s)
  <2>. SUFFICES ASSUME NEW s \in Sources, NEW j \in Rows',
                       jobs'[j].status = "failed", jobs'[j].source = s, jobs'[j].kind = "ingest"
                PROVE  Work(s)
    BY DEF HasParked
  <2>1. j \in Rows /\ jobs[j].source = s /\ jobs[j].kind = "ingest"
    BY DEF ParkedWereRows
  <2>2. jobs[j].status \in JobStatus
    BY <2>1 DEF IngestInv, TypeOK, QueueTypeOK, Job
  <2>. QED  BY <2>1, <2>2 DEF Work, HasActive, HasParked, IsActive, JobStatus
<1>2. Fate' \in [Sources -> Promise!Fates]
  BY DEF Fate, Promise!Fates
<1>3. ASSUME NEW s \in Sources
      PROVE  Fate'[s] = Fate[s] \/ <<Fate[s], Fate'[s]>> \in Promise!Lawful
  <2>1. CASE chunks[s] # NoGen
    BY <2>1 DEF Fate, ChunksStay
  <2>2. CASE chunks[s] = NoGen /\ chunks'[s] # NoGen
    BY <2>2 DEF Fate, ChunksEarned, Promise!Lawful
  <2>3. CASE chunks[s] = NoGen /\ chunks'[s] = NoGen
    <3>1. Work(s) => Work(s)'
      BY <2>3 DEF WorkStays
    <3>. QED  BY <1>1, <2>3, <3>1 DEF Fate, Work, Promise!Lawful
  <2>. QED  BY <2>1, <2>2, <2>3
<1>. QED  BY <1>2, <1>3 DEF Promise!Next

LEMMA UntouchedQueueStep ==
  ASSUME IngestInv, UNCHANGED jobs, ChunksStay, ChunksEarned
  PROVE  Promise!Next
<1>1. WorkStays /\ ParkedWereRows
  BY SameQueue DEF WorkStays, Work, ParkedWereRows, Rows
<1>. QED  BY <1>1, LawfulStep

LEMMA KeptRowsStep ==
  ASSUME IngestInv, IngestInv', UNCHANGED chunks, KeepsRows, ParkedWereRows
  PROVE  Promise!Next
<1>1. QueueInv /\ QueueInv' /\ ChunksStay /\ ChunksEarned
  BY DEF IngestInv, TypeOK, QueueInv, ChunksStay, ChunksEarned
<1>2. WorkStays
  BY <1>1, KeptRowsKeepWork DEF WorkStays
<1>. QED  BY <1>1, <1>2, LawfulStep

LEMMA EnqueueParksNothing ==
  ASSUME QueueInv, NEW o, NEW k, EnqueueJob(o, k)
  PROVE  ParkedWereRows
<1>1. CASE UNCHANGED jobs
  BY <1>1 DEF ParkedWereRows, Rows
<1>2. CASE ~UNCHANGED jobs
  <2>1. \A j \in Rows' : \/ j = NewId /\ jobs'[j].status = "pending"
                         \/ j \in Rows /\ jobs'[j] = jobs[j]
    BY <1>2 DEF EnqueueJob, Rows
  <2>. QED  BY <2>1 DEF ParkedWereRows
<1>. QED  BY <1>1, <1>2

\* No row appears, and rows keep their work.
SameWorks ==
  /\ Rows' \subseteq Rows
  /\ \A j \in Rows' : jobs'[j].source = jobs[j].source /\ jobs'[j].kind = jobs[j].kind

LEMMA StatementsKeepWorks ==
  ASSUME QueueInv, NEW j \in Rows, NEW hard,
         \/ ClaimJob(j) \/ CompleteJob(j) \/ RescheduleJob(j, hard) \/ FailJob(j, hard)
         \/ RetryTimeReached(j) \/ RetryFailedJobs \/ ReclaimRunningJobs
  PROVE  SameWorks
<1>1. \A i \in Rows : jobs[i] \in Job
  BY DEF QueueInv, QueueTypeOK
<1>2. CASE ClaimJob(j) \/ RetryTimeReached(j)
  BY <1>1, <1>2 DEF ClaimJob, RetryTimeReached, SameWorks, Rows, Job
<1>3. CASE CompleteJob(j)
  BY <1>3 DEF CompleteJob, SameWorks, Rows
<1>4. CASE RescheduleJob(j, hard) \/ FailJob(j, hard)
  BY <1>1, <1>4 DEF RescheduleJob, FailJob, SameWorks, Rows, Job
<1>5. CASE RetryFailedJobs
  BY <1>1, <1>5 DEF RetryFailedJobs, Unparked, SameWorks, Rows, Job
<1>6. CASE ReclaimRunningJobs
  BY <1>1, <1>6 DEF ReclaimRunningJobs, SameWorks, Rows, Job
<1>. QED  BY <1>2, <1>3, <1>4, <1>5, <1>6

LEMMA PromiseStep ==
  ASSUME IngestInv, Next, IngestInv'
  PROVE  Promise!Next
<1>. USE IngestAssumption
<1>. DEFINE Quiet == UNCHANGED <<jobs, chunks>>
<1>0. QueueInv /\ QueueInv' /\ StateTypeOK
  BY DEF IngestInv, TypeOK, QueueInv
<1>1. CASE Quiet
  BY <1>1, UntouchedQueueStep DEF ChunksStay, ChunksEarned
<1>2. ASSUME NEW s \in Sources, Archive(s) \/ Enqueue(s) \/ EnqueueFacts(s) \/ CliReindexSource(s)
      PROVE  Promise!Next
  <2>1. CASE Enqueue(s)
    <3>1. UNCHANGED chunks /\ (EnqueueJob(s, "ingest") \/ UNCHANGED jobs)
      BY <2>1 DEF Enqueue, Write
    <3>2. CASE EnqueueJob(s, "ingest")
      BY <3>1, <3>2, <1>0, EnqueueJobKeeps, EnqueueParksNothing, KeptRowsStep
    <3>. QED  BY <3>1, <3>2, <1>1
  <2>2. CASE EnqueueFacts(s)
    <3>1. UNCHANGED chunks /\ (EnqueueJob(s, "facts") \/ UNCHANGED jobs)
      BY <2>2 DEF EnqueueFacts, Write
    <3>2. CASE EnqueueJob(s, "facts")
      BY <3>1, <3>2, <1>0, EnqueueJobKeeps, EnqueueParksNothing, KeptRowsStep
    <3>. QED  BY <3>1, <3>2, <1>1
  <2>3. CASE Archive(s) \/ CliReindexSource(s)
    BY <2>3, <1>1 DEF Archive, CliReindexSource
  <2>. QED  BY <1>2, <2>1, <2>2, <2>3
<1>3. ASSUME NEW w \in Workers, NEW j \in Rows, Claim(w, j)
      PROVE  Promise!Next
  <2>1. ClaimJob(j) /\ UNCHANGED chunks
    BY <1>3 DEF Claim
  <2>2. SameWorks /\ Rows' = Rows
    BY <1>0, <2>1, StatementsKeepWorks DEF ClaimJob, Rows
  <2>. QED  BY <2>1, <2>2, KeptRowsStep DEF SameWorks, KeepsRows, ParkedWereRows
<1>4. ASSUME NEW w \in Workers, ReplaceChunks(w)
      PROVE  Promise!Next
  <2>1. /\ worker[w].pc = "replace" /\ UNCHANGED jobs /\ Holds(w) /\ Src(w) \in Sources
        /\ worker[w].job \in Rows /\ jobs[worker[w].job].status = "running"
        /\ jobs[worker[w].job].source = Src(w)
    BY <1>4, AtHolds DEF ReplaceChunks, At
  <2>2. HasActive(Src(w), "ingest") /\ worker[w].gen # NoGen
    BY <2>1 DEF IngestInv, HeldRows, Pipeline, HasActive, IsActive
  <2>3. \A s \in Sources : chunks'[s] # chunks[s] => s = Src(w) /\ chunks'[s] # NoGen
    BY <1>4, <2>1, <2>2, <1>0 DEF ReplaceChunks, StateTypeOK
  <2>4. ChunksStay /\ ChunksEarned
    BY <2>2, <2>3 DEF ChunksStay, ChunksEarned
  <2>. QED  BY <2>1, <2>4, UntouchedQueueStep
<1>5. ASSUME NEW w \in Workers, FinishJob(w)
      PROVE  Promise!Next
  <2>1. worker[w].job \in Rows /\ UNCHANGED chunks
    BY <1>5, AtHolds DEF FinishJob, At
  <2>2. CASE UNCHANGED jobs
    BY <2>1, <2>2, <1>1
  <2>3. CASE CompleteJob(worker[w].job)
    <3>1. ParkedWereRows
      BY <1>0, <2>1, <2>3, StatementsKeepWorks DEF SameWorks, ParkedWereRows
    <3>2. WorkStays
      BY <1>5, FinishJobKeepsWork DEF WorkStays
    <3>. QED  BY <2>1, <3>1, <3>2, LawfulStep DEF ChunksStay, ChunksEarned
  <2>. QED  BY <1>5, <2>2, <2>3 DEF FinishJob, Write
<1>6. ASSUME NEW w \in Workers, RetryLater(w) \/ Park(w)
      PROVE  Promise!Next
  <2>. DEFINE j == worker[w].job
              hard == worker[w].result = "error"
  <2>1. j \in Rows /\ UNCHANGED chunks
    BY <1>6, AtHolds DEF RetryLater, Park, At
  <2>2. CASE UNCHANGED jobs
    BY <2>1, <2>2, <1>1
  <2>3. CASE RescheduleJob(j, hard) \/ FailJob(j, hard)
    <3>1. SameWorks /\ KeepsRows
      BY <1>0, <2>1, <2>3, StatementsKeepWorks, RescheduleJobKeeps
    <3>. QED  BY <2>1, <3>1, KeptRowsStep DEF SameWorks, ParkedWereRows
  <2>. QED  BY <1>6, <2>2, <2>3 DEF RetryLater, Park, Write
<1>7. ASSUME NEW w \in Workers, WorkerStep(w)
      PROVE  Promise!Next
  BY <1>7, <1>1, <1>4, <1>5, <1>6
     DEF WorkerStep, LoadSource, Extract, EnsureCollection, Embed, Upsert, MarkCompleted,
         Distill, MarkParked
<1>8. ASSUME NEW j \in Rows, RetryDue(j)
      PROVE  Promise!Next
  <2>1. SameWorks /\ KeepsRows /\ UNCHANGED chunks
    BY <1>0, <1>8, StatementsKeepWorks, RetryTimeReachedKeeps DEF RetryDue
  <2>. QED  BY <2>1, KeptRowsStep DEF SameWorks, ParkedWereRows
<1>9. CASE CliRetry \/ CliReindexFailed
  <2>1. RetryFailedJobs /\ UNCHANGED chunks
    BY <1>9 DEF CliRetry, CliReindexFailed
  <2>2. CASE Rows # {}
    <3>1. SameWorks /\ KeepsRows
      BY <1>0, <2>1, <2>2, StatementsKeepWorks, RetryFailedJobsKeeps
    <3>. QED  BY <2>1, <3>1, KeptRowsStep DEF SameWorks, ParkedWereRows
  <2>3. CASE Rows = {}
    <3>1. KeepsRows /\ Rows' = {}
      BY <1>0, <2>1, <2>3, RetryFailedJobsKeeps DEF RetryFailedJobs, Unparked, Rows
    <3>. QED  BY <2>1, <3>1, KeptRowsStep DEF ParkedWereRows
  <2>. QED  BY <2>2, <2>3
<1>10. CASE CliReindexAll \/ CliCreate \/ CliList \/ CliMark
  BY <1>1, <1>10 DEF CliReindexAll, CliCreate, CliList, CliMark
<1>11. CASE CliEnqueue
  <2>1. cli.cur \in Sources /\ EnqueueJob(cli.cur, "ingest") /\ UNCHANGED chunks
    BY <1>11 DEF CliEnqueue, IngestInv, CliHasTarget
  <2>. QED  BY <2>1, <1>0, EnqueueJobKeeps, EnqueueParksNothing, KeptRowsStep
<1>12. ASSUME NEW b \in Backends, Outage(b) \/ Recover(b)
       PROVE  Promise!Next
  BY <1>1, <1>12 DEF Outage, Recover
<1>13. CASE Interrupt \/ Crash
  BY <1>1, <1>13 DEF Interrupt, Crash
<1>14. CASE Restart
  <2>1. UNCHANGED chunks /\ (ReclaimRunningJobs \/ UNCHANGED jobs)
    BY <1>14 DEF Restart, Write
  <2>2. CASE ReclaimRunningJobs
    <3>1. Rows' = Rows /\ \A j \in Rows : jobs[j] \in Job
      BY <1>0, <2>2 DEF ReclaimRunningJobs, Rows, QueueInv, QueueTypeOK
    <3>2. KeepsRows /\ ParkedWereRows
      BY <2>2, <3>1 DEF ReclaimRunningJobs, KeepsRows, ParkedWereRows, Job
    <3>. QED  BY <2>1, <3>2, KeptRowsStep
  <2>. QED  BY <2>1, <2>2, <1>1
<1>. QED
  <2>1. \/ \E s \in Sources : Archive(s) \/ Enqueue(s) \/ EnqueueFacts(s) \/ CliReindexSource(s)
        \/ \E w \in Workers : WorkerStep(w) \/ \E j \in Rows : Claim(w, j)
        \/ \E j \in Rows : RetryDue(j)
        \/ CliRetry \/ CliReindexFailed \/ CliReindexAll
        \/ CliCreate \/ CliList \/ CliMark \/ CliEnqueue
        \/ \E b \in Backends : Outage(b) \/ Recover(b)
        \/ Interrupt \/ Crash \/ Restart
    BY DEF Next, CliStep
  <2>. QED  BY <2>1, <1>2, <1>3, <1>7, <1>8, <1>9, <1>10, <1>11, <1>12, <1>13, <1>14

(* Ingestion keeps the promise made for archived items: nothing taken on    *)
(* disappears, and an indexed item stays indexed.                           *)
THEOREM PromiseKept == Spec => KeepsPromise
<1>1. Init => Promise!Init
  BY DEF Init, QueueInit, Fate, Promise!Init, HasActive, HasParked, Rows
<1>2. IngestInv /\ IngestInv' /\ [Next]_vars => [Promise!Next]_Fate
  <2>1. UNCHANGED vars => UNCHANGED Fate
    BY DEF vars, Fate, HasActive, HasParked, Rows, IsActive
  <2>. QED  BY <2>1, PromiseStep
<1>. QED  BY <1>1, <1>2, IngestInvariant, PTL DEF Spec, KeepsPromise, Promise!Spec

(* ------------------------ search and the queue ----------------------- *)

(* In a run without one kind of event: no rebuild of the whole index        *)
(* (reindex --all), or no failed write to memory.db.                        *)
NoRebuild == "reindex_all" \notin Events

\* Points first, then rows: a worker about to store a generation has indexed it.
ReplaceIndexed ==
  \A w \in Workers : worker[w].pc = "replace" => worker[w].gen \in index[Src(w)]
StoredIndexed == \A s \in Sources : chunks[s] # NoGen => chunks[s] \in index[s]
SearchInv == ReplaceIndexed /\ StoredIndexed

\* Points are only ever added.
IndexGrows == \A s \in Sources : index[s] \subseteq index'[s]

LEMMA WithoutRebuildIndexGrows ==
  ASSUME StateTypeOK, [Next]_vars, NoRebuild
  PROVE  IndexGrows
<1>1. CASE UNCHANGED index
  BY <1>1 DEF IndexGrows
<1>2. ASSUME NEW w \in Workers, Upsert(w)
      PROVE  IndexGrows
  BY <1>2 DEF Upsert, IndexGrows, StateTypeOK
<1>3. ~CliReindexAll
  BY DEF NoRebuild, CliReindexAll, Happens
<1>. QED
  BY <1>1, <1>2, <1>3
     DEF Next, vars, WorkerStep, CliStep, Archive, Enqueue, EnqueueFacts, CliReindexSource,
         Claim, LoadSource, Extract, EnsureCollection, Embed, ReplaceChunks, MarkCompleted,
         Distill, FinishJob, RetryLater, Park, MarkParked, RetryDue, CliRetry,
         CliReindexFailed, CliCreate, CliList, CliMark, CliEnqueue, Outage, Recover,
         Interrupt, Crash, Restart

\* A worker is not about to store anything it was not about to store before.
ReplacersStay ==
  \A w \in Workers : worker'[w].pc = "replace" => worker'[w] = worker[w]

LEMMA SettleNoReplace ==
  ASSUME StateTypeOK, NEW w \in Workers,
         \/ \E r \in Results : Settle(w, r)
         \/ \E pc \in Steps \ {"replace"} : Goto(w, pc)
         \/ worker' = [worker EXCEPT ![w] = Idle]
  PROVE  ReplacersStay
<1>1. worker'[w].pc # "replace" /\ Others(w)
  <2>1. ASSUME NEW r \in Results, Settle(w, r)
        PROVE  worker'[w].pc # "replace" /\ Others(w)
    BY <2>1, SettleEffect
  <2>2. ASSUME NEW pc \in Steps \ {"replace"}, Goto(w, pc)
        PROVE  worker'[w].pc # "replace" /\ Others(w)
    BY <2>2, GotoEffect
  <2>3. CASE worker' = [worker EXCEPT ![w] = Idle]
    BY <2>3, IngestAssumption, IdleEffect
  <2>. QED  BY <2>1, <2>2, <2>3
<1>. QED  BY <1>1 DEF ReplacersStay, Others

LEMMA OnlyUpsertReplaces ==
  ASSUME IngestInv, [Next]_vars
  PROVE  ReplacersStay \/ \E w \in Workers : Upsert(w)
<1>. USE DEF Results, Steps, Pipeline
<1>0. StateTypeOK
  BY DEF IngestInv, TypeOK
<1>1. CASE UNCHANGED worker
  BY <1>1 DEF ReplacersStay
<1>2. ASSUME NEW w \in Workers, WorkerStep(w), ~Upsert(w)
      PROVE  ReplacersStay
  <2>1. \/ \E r \in Results : Settle(w, r)
        \/ \E pc \in Steps \ {"replace"} : Goto(w, pc)
        \/ worker' = [worker EXCEPT ![w] = Idle]
    BY <1>2 DEF WorkerStep, LoadSource, Extract, EnsureCollection, Embed, ReplaceChunks,
                MarkCompleted, Distill, FinishJob, RetryLater, Park, MarkParked
  <2>. QED  BY <1>0, <2>1, SettleNoReplace
<1>3. ASSUME NEW w \in Workers, NEW j \in Rows, Claim(w, j)
      PROVE  ReplacersStay
  <2>1. worker'[w].pc # "replace" /\ Others(w)
    BY <1>0, <1>3 DEF Claim, StateTypeOK, Others
  <2>. QED  BY <2>1 DEF ReplacersStay, Others
<1>4. CASE Crash
  BY <1>4 DEF Crash, Idle, ReplacersStay
<1>. QED
  BY <1>1, <1>2, <1>3, <1>4
     DEF Next, vars, CliStep, Archive, Enqueue, EnqueueFacts, CliReindexSource, RetryDue,
         CliRetry, CliReindexFailed, CliReindexAll, CliCreate, CliList, CliMark, CliEnqueue,
         Outage, Recover, Interrupt, Restart

LEMMA OnlyReplaceStores ==
  ASSUME IngestInv, [Next]_vars
  PROVE  UNCHANGED chunks \/ \E w \in Workers : ReplaceChunks(w)
BY DEF Next, vars, WorkerStep, CliStep, Archive, Enqueue, EnqueueFacts, CliReindexSource,
       Claim, LoadSource, Extract, EnsureCollection, Embed, Upsert, MarkCompleted,
       Distill, FinishJob, RetryLater, Park, MarkParked, RetryDue, CliRetry,
       CliReindexFailed, CliReindexAll, CliCreate, CliList, CliMark, CliEnqueue, Outage,
       Recover, Interrupt, Crash, Restart

LEMMA SearchStep ==
  ASSUME IngestInv, SearchInv, [Next]_vars, NoRebuild
  PROVE  SearchInv' /\ \A s \in Sources : Searchable(s) => Searchable(s)'
<1>0. StateTypeOK /\ IndexGrows
  BY WithoutRebuildIndexGrows DEF IngestInv, TypeOK
<1>1. ReplaceIndexed'
  <2>1. CASE ReplacersStay
    <3>. SUFFICES ASSUME NEW w \in Workers, worker'[w].pc = "replace"
                  PROVE  worker'[w].gen \in index'[worker'[w].src]
      BY DEF ReplaceIndexed, Src
    <3>1. worker'[w] = worker[w]
      BY <2>1 DEF ReplacersStay
    <3>2. Src(w) \in Sources
      BY <3>1, AtHolds
    <3>. QED  BY <1>0, <3>1, <3>2 DEF SearchInv, ReplaceIndexed, IndexGrows, Src
  <2>2. ASSUME NEW w \in Workers, Upsert(w)
        PROVE  ReplaceIndexed'
    <3>1. Others(w) /\ Src(w) \in Sources /\ worker'[w].src = Src(w)
      <4>1. worker[w].pc = "upsert" /\ Src(w) \in Sources
        BY <2>2, AtHolds DEF Upsert, At
      <4>. QED  BY <1>0, <2>2, <4>1 DEF Upsert, Others, Settle, StateTypeOK, WorkerState, Src
    <3>2. worker'[w].pc = "replace" => worker'[w].gen \in index'[Src(w)]
      BY <1>0, <2>2, <3>1 DEF Upsert, Settle, StateTypeOK, WorkerState
    <3>3. \A v \in Workers : v # w /\ worker'[v].pc = "replace" => worker'[v].gen \in index'[worker'[v].src]
      <4>. SUFFICES ASSUME NEW v \in Workers, v # w, worker'[v].pc = "replace"
                    PROVE  worker'[v].gen \in index'[worker'[v].src]
        OBVIOUS
      <4>1. worker'[v] = worker[v]
        BY <3>1 DEF Others
      <4>2. Src(v) \in Sources
        BY <4>1, AtHolds
      <4>. QED  BY <1>0, <4>1, <4>2 DEF SearchInv, ReplaceIndexed, IndexGrows, Src
    <3>. QED  BY <3>1, <3>2, <3>3 DEF ReplaceIndexed, Src
  <2>. QED  BY <2>1, <2>2, OnlyUpsertReplaces
<1>2. ASSUME NEW s \in Sources
      PROVE  \/ chunks'[s] = chunks[s] \/ chunks'[s] \in index'[s]
  <2>1. ASSUME NEW w \in Workers, ReplaceChunks(w)
        PROVE  \/ chunks'[s] = chunks[s] \/ chunks'[s] \in index'[s]
    <3>1. worker[w].pc = "replace" /\ UNCHANGED index
      BY <2>1 DEF ReplaceChunks, At
    <3>2. worker[w].gen \in index[Src(w)]
      BY <3>1 DEF SearchInv, ReplaceIndexed
    <3>. QED  BY <1>0, <2>1, <3>1, <3>2 DEF ReplaceChunks, StateTypeOK
  <2>. QED  BY <2>1, OnlyReplaceStores
<1>3. StoredIndexed'
  BY <1>0, <1>2 DEF SearchInv, StoredIndexed, IndexGrows
<1>4. \A s \in Sources : Searchable(s) => Searchable(s)'
  BY <1>0, <1>2 DEF Searchable, IndexGrows
<1>. QED  BY <1>1, <1>3, <1>4 DEF SearchInv

LEMMA SearchInit ==
  ASSUME Init
  PROVE  SearchInv
BY DEF Init, Idle, SearchInv, ReplaceIndexed, StoredIndexed

(* Without a rebuild, what is marked completed can be found.                *)
THEOREM CompletedSearchable == NoRebuild /\ Spec => []CompletedIsSearchable
<1>1. Init => SearchInv
  BY SearchInit
<1>2. NoRebuild /\ IngestInv /\ SearchInv /\ [Next]_vars => SearchInv'
  BY SearchStep
<1>3. IngestInv /\ SearchInv => CompletedIsSearchable
  BY DEF IngestInv, CompletedHasChunks, SearchInv, StoredIndexed, CompletedIsSearchable
<1>4. ASSUME NoRebuild
      PROVE  Spec => []CompletedIsSearchable
  <2>1. IngestInv /\ SearchInv /\ [Next]_vars => SearchInv'
    BY <1>2, <1>4
  <2>. QED  BY <1>1, <2>1, <1>3, IngestInvariant, PTL DEF Spec
<1>. QED  BY <1>4

(* Without a rebuild, what search can find it goes on finding: no retry,    *)
(* crash, reindex of that source or second pipeline run takes it away.      *)
THEOREM SearchNeverLost == NoRebuild /\ Spec => SearchableStays
<1>1. Init => SearchInv
  BY SearchInit
<1>2. ASSUME NoRebuild
      PROVE  Spec => SearchableStays
  <2>1. IngestInv /\ SearchInv /\ [Next]_vars => SearchInv'
    BY <1>2, SearchStep
  <2>2. IngestInv /\ SearchInv /\ [Next]_vars
          => [\A s \in Sources : Searchable(s) => Searchable(s)']_vars
    BY <1>2, SearchStep
  <2>. QED  BY <1>1, <2>1, <2>2, IngestInvariant, PTL DEF Spec, SearchableStays
<1>. QED  BY <1>2

-----------------------------------------------------------------------------
(* NoStuckRunning is inductive over IngestInv once no write fails: a row is *)
(* running from the claim to the write that ends the claim.                 *)
NoFailedWrites == "write_failed" \notin Events

\* The running rows of the next state are running now, and have the same worker.
NoNewRunning ==
  \A j \in Rows' : jobs'[j].status = "running" => j \in Rows /\ jobs[j].status = "running"
HoldersStay == \A w \in Workers : Holds(w) => Holds(w)' /\ worker'[w].job = worker[w].job

LEMMA RunningStays ==
  ASSUME NoStuckRunning, UNCHANGED agent, NoNewRunning, HoldersStay
  PROVE  NoStuckRunning'
BY DEF NoStuckRunning, NoNewRunning, HoldersStay

LEMMA StatementsRunNothing ==
  ASSUME QueueInv, \/ RetryFailedJobs \/ \E o \in Owners, k \in Kinds : EnqueueJob(o, k)
                   \/ \E j \in Rows : RetryTimeReached(j)
                   \/ UNCHANGED jobs
  PROVE  NoNewRunning
<1>1. CASE UNCHANGED jobs
  BY <1>1 DEF NoNewRunning, Rows
<1>2. CASE RetryFailedJobs
  BY <1>2 DEF RetryFailedJobs, Unparked, NoNewRunning, Rows, QueueInv, QueueTypeOK, Job
<1>3. ASSUME NEW o, NEW k, EnqueueJob(o, k), ~UNCHANGED jobs
      PROVE  NoNewRunning
  <2>1. \A j \in Rows' : \/ j = NewId /\ jobs'[j].status = "pending"
                         \/ j \in Rows /\ jobs'[j] = jobs[j]
    BY <1>3 DEF EnqueueJob, Rows
  <2>. QED  BY <2>1 DEF NoNewRunning
<1>4. ASSUME NEW j \in Rows, RetryTimeReached(j)
      PROVE  NoNewRunning
  BY <1>4 DEF RetryTimeReached, NoNewRunning, Rows, QueueInv, QueueTypeOK, Job
<1>. QED  BY <1>1, <1>2, <1>3, <1>4

\* The end of a worker's run: its row is no longer running, the others stay.
LEMMA RunEnds ==
  ASSUME IngestInv, NoStuckRunning, NEW w \in Workers, FinishJob(w) \/ RetryLater(w) \/ Park(w),
         NoFailedWrites
  PROVE  NoStuckRunning'
<1>. DEFINE j == worker[w].job
<1>1. /\ j \in Rows /\ jobs[j] \in Job /\ Others(w) /\ UNCHANGED agent
  <2>1. j \in Rows /\ jobs[j] \in Job /\ UNCHANGED agent
    BY AtHolds DEF FinishJob, RetryLater, Park, At
  <2>2. StateTypeOK /\ "park" \in Steps
    BY DEF IngestInv, TypeOK, Steps
  <2>. QED  BY <2>1, <2>2, GotoEffect, IdleEffect, IngestAssumption DEF FinishJob, RetryLater, Park
<1>2. \/ CompleteJob(j)
      \/ RescheduleJob(j, worker[w].result = "error") \/ FailJob(j, worker[w].result = "error")
  BY DEF FinishJob, RetryLater, Park, Write, NoFailedWrites, Happens
<1>3. \A i \in Rows' : jobs'[i].status = "running" =>
        i # j /\ i \in Rows /\ jobs[i].status = "running"
  BY <1>1, <1>2 DEF CompleteJob, RescheduleJob, FailJob, Rows, Job
<1>. QED  BY <1>1, <1>3 DEF NoStuckRunning, Holds, Others

LEMMA RunStarts ==
  ASSUME IngestInv, NoStuckRunning, NEW w \in Workers, NEW j \in Rows, Claim(w, j)
  PROVE  NoStuckRunning'
<1>1. /\ worker'[w].job = j /\ worker'[w].pc \in {"distill", "load"} /\ Others(w)
      /\ ~Holds(w) /\ UNCHANGED agent
  BY DEF Claim, At, Holds, Others, IngestInv, TypeOK, StateTypeOK
<1>2. \A i \in Rows' : i # j => i \in Rows /\ jobs'[i] = jobs[i]
  BY DEF Claim, ClaimJob, Rows
<1>. QED  BY <1>1, <1>2 DEF NoStuckRunning, Holds, Others

LEMMA RunGoesOn ==
  ASSUME IngestInv, NoStuckRunning, NEW w \in Workers, WorkerStep(w),
         ~FinishJob(w), ~RetryLater(w), ~Park(w)
  PROVE  NoStuckRunning'
<1>1. UNCHANGED <<jobs, agent>>
  BY DEF WorkerStep, LoadSource, Extract, EnsureCollection, Embed, Upsert, ReplaceChunks,
         MarkCompleted, Distill, MarkParked
<1>2. HoldersStay
  <2>1. CASE MarkParked(w)
    BY <2>1 DEF MarkParked, At, HoldersStay, Holds, IngestInv, TypeOK, StateTypeOK
  <2>2. CASE ~MarkParked(w)
    BY <2>2 DEF WorkerStep, LoadSource, Extract, EnsureCollection, Embed, Upsert,
                ReplaceChunks, MarkCompleted, Distill, Goto, Settle, HoldersStay, Holds,
                IngestInv, TypeOK, StateTypeOK, WorkerState
  <2>. QED  BY <2>1, <2>2
<1>3. NoNewRunning
  BY <1>1 DEF NoNewRunning, Rows
<1>. QED  BY <1>1, <1>2, <1>3, RunningStays

(* Without failed writes a row is running only in the hands of a worker,    *)
(* whatever crashed before: the reclaim at startup takes back every row the *)
(* crash left behind (service.go Run).                                      *)
THEOREM NoneStuckRunning == NoFailedWrites /\ Spec => []NoStuckRunning
<1>1. Init => NoStuckRunning
  BY DEF Init, QueueInit, NoStuckRunning, Rows
<1>2. ASSUME NoFailedWrites, IngestInv, NoStuckRunning, [Next]_vars
      PROVE  NoStuckRunning'
  <2>0. QueueInv
    BY <1>2 DEF IngestInv, TypeOK, QueueInv
  <2>1. CASE Crash
    BY <2>1 DEF Crash, NoStuckRunning
  <2>2. CASE Restart
    <3>1. ReclaimRunningJobs
      BY <1>2, <2>2 DEF Restart, Write, NoFailedWrites, Happens
    <3>. QED
      BY <2>0, <3>1 DEF ReclaimRunningJobs, NoStuckRunning, Rows, QueueInv, QueueTypeOK, Job
  <2>3. ASSUME NEW w \in Workers, WorkerStep(w) \/ \E j \in Rows : Claim(w, j)
        PROVE  NoStuckRunning'
    BY <1>2, <2>3, RunEnds, RunStarts, RunGoesOn
  <2>4. CASE UNCHANGED <<worker, agent>>
                /\ \/ RetryFailedJobs \/ \E o \in Owners, k \in Kinds : EnqueueJob(o, k)
                   \/ \E j \in Rows : RetryTimeReached(j)
                   \/ UNCHANGED jobs
    <3>1. NoNewRunning /\ HoldersStay
      BY <2>0, <2>4, StatementsRunNothing DEF HoldersStay, Holds
    <3>. QED  BY <1>2, <2>4, <3>1, RunningStays
  <2>5. \/ UNCHANGED <<worker, agent>>
            /\ \/ RetryFailedJobs \/ \E o \in Owners, k \in Kinds : EnqueueJob(o, k)
               \/ \E j \in Rows : RetryTimeReached(j)
               \/ UNCHANGED jobs
        \/ \E w \in Workers : WorkerStep(w) \/ \E j \in Rows : Claim(w, j)
        \/ Crash \/ Restart
    <3>1. cli.pc = "enqueue" => cli.cur \in Sources
      BY <1>2 DEF IngestInv, CliHasTarget
    <3>. QED
      BY <1>2, <3>1, IngestAssumption
         DEF Next, vars, CliStep, Archive, Enqueue, EnqueueFacts, Write, CliReindexSource, RetryDue,
             CliRetry, CliReindexFailed, CliReindexAll, CliCreate, CliList, CliMark,
             CliEnqueue, Outage, Recover, Interrupt
  <2>. QED  BY <2>1, <2>2, <2>3, <2>4, <2>5
<1>3. ASSUME NoFailedWrites
      PROVE  Spec => []NoStuckRunning
  <2>1. IngestInv /\ NoStuckRunning /\ [Next]_vars => NoStuckRunning'
    BY <1>2, <1>3
  <2>. QED  BY <1>1, <2>1, IngestInvariant, PTL DEF Spec
<1>. QED  BY <1>3

===============================================================================
