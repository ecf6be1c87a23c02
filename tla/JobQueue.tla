------------------------------ MODULE JobQueue ------------------------------
(***************************************************************************)
(* The persistent job queue of the long-term memory: the table             *)
(* memory_jobs of memory.db and the statements internal/memory/store.go    *)
(* runs on it.  Each operator below is one SQL statement (or one           *)
(* transaction), hence one atomic step.  The table is a function from job  *)
(* ids to rows; its domain is the set of ids present.                      *)
(*                                                                         *)
(* Abstractions: next_retry_at is the Boolean "due"; attempts saturates at *)
(* MaxAttempts, the only value the code compares it with (backoff is       *)
(* capped as well); a deleted id may be reused, which nothing can observe  *)
(* because only the worker holding a running job deletes it.  "permanent"  *)
(* is a history field: how many non-transient failures the job has had.    *)
(***************************************************************************)
EXTENDS Naturals, FiniteSets

CONSTANTS
  Owners,       \* what a job is about: ids of sources or of episodes
  Kinds,        \* kinds of work: "ingest", "facts", "summarize"
  JobIds,       \* ids of rows; bounds the number of rows present at once
  MaxAttempts   \* IngestionOptions.MaxAttempts

ASSUME MaxAttemptsAssumption == MaxAttempts \in Nat \ {0}

VARIABLE jobs

JobStatus == {"pending", "running", "failed"}

Job == [source : Owners, kind : Kinds, status : JobStatus, due : BOOLEAN,
        attempts : 0..MaxAttempts, permanent : 0..MaxAttempts]

Rows == DOMAIN jobs

\* The rows the partial index idx_memory_jobs_active ranges over.
IsActive(j) == jobs[j].status \in {"pending", "running"}
SameWork(i, j) == jobs[i].source = jobs[j].source /\ jobs[i].kind = jobs[j].kind
HasActive(o, k) ==
  \E j \in Rows : IsActive(j) /\ jobs[j].source = o /\ jobs[j].kind = k
HasParked(o, k) ==
  \E j \in Rows : jobs[j].status = "failed" /\ jobs[j].source = o /\ jobs[j].kind = k

OneMore(n) == IF n < MaxAttempts THEN n + 1 ELSE MaxAttempts

QueueInit == jobs = [j \in {} |-> {}]

-----------------------------------------------------------------------------
(* The statements.                                                         *)

\* Faulty: no look at the active rows.
EnqueueJobTwice(o, k) ==
  \E j \in JobIds \ Rows : jobs' = [i \in Rows \cup {j} |->
    IF i = j
    THEN [source |-> o, kind |-> k, status |-> "pending", due |-> TRUE,
          attempts |-> 0, permanent |-> 0]
    ELSE jobs[i]]

\* EnqueueJob: a unique violation on the active index is "already queued".
NewId == CHOOSE j \in JobIds : j \notin Rows
EnqueueJob(o, k) ==
  \/ HasActive(o, k) /\ UNCHANGED jobs
  \/ /\ ~HasActive(o, k)
     /\ Rows # JobIds
     /\ jobs' = [j \in Rows \cup {NewId} |->
          IF j = NewId
          THEN [source |-> o, kind |-> k, status |-> "pending", due |-> TRUE,
                attempts |-> 0, permanent |-> 0]
          ELSE jobs[j]]

\* ClaimJob: the due pending row with the smallest next_retry_at.  Which due
\* row that is depends on clock values the model does not keep: any of them.
Claimable(j) == jobs[j].status = "pending" /\ jobs[j].due
ClaimJob(j) ==
  /\ Claimable(j)
  /\ jobs' = [jobs EXCEPT ![j].status = "running"]

\* Faulty: the finished row is left as it is.
CompleteJobNot(j) == UNCHANGED jobs
CompleteJob(j) == jobs' = [i \in Rows \ {j} |-> jobs[i]]

RescheduleJob(j, hard) ==
  jobs' = [jobs EXCEPT ![j].status = "pending", ![j].due = FALSE,
                       ![j].attempts = OneMore(@),
                       ![j].permanent = IF hard THEN OneMore(@) ELSE @]

FailJob(j, hard) ==
  jobs' = [jobs EXCEPT ![j].status = "failed",
                       ![j].permanent = IF hard THEN OneMore(@) ELSE @]

\* Faulty: rows left running by a crash stay so.
ReclaimNothing == UNCHANGED jobs
ReclaimRunningJobs ==
  jobs' = [j \in Rows |->
    IF jobs[j].status = "running" THEN [jobs[j] EXCEPT !.status = "pending"] ELSE jobs[j]]

\* RetryFailedJobs is one UPDATE over all parked rows: when two of the rows it
\* would leave active are the same work, the active index aborts the statement.
RetryCollides ==
  \E i, j \in Rows : i # j /\ jobs[i].status = "failed" /\ SameWork(i, j)
Unparked ==
  [j \in Rows |->
    IF jobs[j].status = "failed"
    THEN [jobs[j] EXCEPT !.status = "pending", !.due = TRUE, !.attempts = 0, !.permanent = 0]
    ELSE jobs[j]]
RetryFailedJobs == jobs' = IF RetryCollides THEN jobs ELSE Unparked

\* The clock reaches next_retry_at of a rescheduled row.
RetryTimeReached(j) ==
  /\ jobs[j].status = "pending" /\ ~jobs[j].due
  /\ jobs' = [jobs EXCEPT ![j].due = TRUE]

-----------------------------------------------------------------------------
QueueTypeOK ==
  /\ Rows \subseteq JobIds
  /\ \A j \in Rows : jobs[j] \in Job

(* At most one outstanding job per source and kind (the claim of the schema *)
(* comment, migrations/0001_memory_rag.sql:62-64).                          *)
ActiveUnique ==
  \A i, j \in Rows : IsActive(i) /\ IsActive(j) /\ SameWork(i, j) => i = j
=============================================================================
