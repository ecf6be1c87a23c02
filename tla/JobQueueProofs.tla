--------------------------- MODULE JobQueueProofs ---------------------------
(***************************************************************************)
(* What every statement of the queue preserves, for any set of owners,     *)
(* kinds and ids: the type of the table, and the uniqueness of outstanding *)
(* work that the partial index enforces.                                   *)
(***************************************************************************)
EXTENDS JobQueue, TLAPS

QueueInv == QueueTypeOK /\ ActiveUnique

LEMMA OneMoreType ==
  ASSUME NEW n \in 0..MaxAttempts
  PROVE  OneMore(n) \in 0..MaxAttempts
BY MaxAttemptsAssumption DEF OneMore

LEMMA QueueInitInv == QueueInit => QueueInv
BY DEF QueueInit, QueueInv, QueueTypeOK, ActiveUnique, Rows

(* EnqueueJob adds a row only when no row of the same work is active.       *)
LEMMA EnqueueJobInv ==
  ASSUME QueueInv, NEW o \in Owners, NEW k \in Kinds, EnqueueJob(o, k)
  PROVE  QueueInv'
<1>1. CASE UNCHANGED jobs
  BY <1>1 DEF QueueInv, QueueTypeOK, ActiveUnique, Rows, IsActive, SameWork, Job, JobStatus
<1>2. CASE ~HasActive(o, k) /\ Rows # JobIds /\ ~UNCHANGED jobs
  <2>. DEFINE j == NewId
              new == [source |-> o, kind |-> k, status |-> "pending", due |-> TRUE,
                      attempts |-> 0, permanent |-> 0]
  <2>1. j \in JobIds /\ j \notin Rows
    BY <1>2 DEF NewId, QueueInv, QueueTypeOK
  <2>2. jobs' = [i \in Rows \cup {j} |-> IF i = j THEN new ELSE jobs[i]]
    BY <1>2 DEF EnqueueJob
  <2>3. Rows' = Rows \cup {j} /\ jobs'[j] = new /\ \A i \in Rows : jobs'[i] = jobs[i]
    BY <2>1, <2>2 DEF Rows
  <2>4. new \in Job
    BY MaxAttemptsAssumption DEF Job, JobStatus
  <2>. HIDE DEF j, new
  <2>5. QueueTypeOK'
    BY <2>1, <2>3, <2>4 DEF QueueInv, QueueTypeOK, Job, JobStatus
  <2>6. new.source = o /\ new.kind = k
    BY DEF new
  <2>7. ActiveUnique'
    BY <1>2, <2>1, <2>3, <2>6 DEF QueueInv, ActiveUnique, IsActive, SameWork, HasActive
  <2>. QED  BY <2>5, <2>7 DEF QueueInv
<1>. QED  BY <1>1, <1>2 DEF EnqueueJob
(* A row that changes in place, keeps its source and kind and does not      *)
(* become active, disturbs neither part of the invariant.                   *)
LEMMA UpdateRowInv ==
  ASSUME QueueInv, NEW j \in Rows, NEW row \in Job,
         row.source = jobs[j].source, row.kind = jobs[j].kind,
         row.status \in {"pending", "running"} => IsActive(j),
         jobs' = [jobs EXCEPT ![j] = row]
  PROVE  QueueInv'
<1>1. Rows' = Rows /\ jobs'[j] = row /\ \A i \in Rows : i # j => jobs'[i] = jobs[i]
  BY DEF Rows
<1>2. QueueTypeOK'
  BY <1>1 DEF QueueInv, QueueTypeOK
<1>3. ActiveUnique'
  BY <1>1 DEF QueueInv, ActiveUnique, IsActive, SameWork
<1>. QED  BY <1>2, <1>3 DEF QueueInv

LEMMA ClaimJobInv ==
  ASSUME QueueInv, NEW j \in Rows, ClaimJob(j)
  PROVE  QueueInv'
<1>. DEFINE row == [jobs[j] EXCEPT !.status = "running"]
<1>1. jobs[j] \in Job
  BY DEF QueueInv, QueueTypeOK
<1>2. row \in Job /\ row.source = jobs[j].source /\ row.kind = jobs[j].kind
  BY <1>1 DEF Job, JobStatus
<1>3. IsActive(j) /\ jobs' = [jobs EXCEPT ![j] = row]
  BY DEF ClaimJob, Claimable, IsActive
<1>. HIDE DEF row
<1>. QED  BY <1>2, <1>3, UpdateRowInv

LEMMA RescheduleJobInv ==
  ASSUME QueueInv, NEW j \in Rows, NEW hard \in BOOLEAN, IsActive(j), RescheduleJob(j, hard)
  PROVE  QueueInv'
<1>. DEFINE row == [jobs[j] EXCEPT !.status = "pending", !.due = FALSE,
                      !.attempts = OneMore(@), !.permanent = IF hard THEN OneMore(@) ELSE @]
<1>1. jobs[j] \in Job
  BY DEF QueueInv, QueueTypeOK
<1>2. row \in Job /\ row.source = jobs[j].source /\ row.kind = jobs[j].kind
  BY <1>1, OneMoreType DEF Job, JobStatus
<1>3. jobs' = [jobs EXCEPT ![j] = row]
  BY DEF RescheduleJob
<1>. HIDE DEF row
<1>. QED  BY <1>2, <1>3, UpdateRowInv

LEMMA FailJobInv ==
  ASSUME QueueInv, NEW j \in Rows, NEW hard \in BOOLEAN, IsActive(j), FailJob(j, hard)
  PROVE  QueueInv'
<1>. DEFINE row == [jobs[j] EXCEPT !.status = "failed",
                      !.permanent = IF hard THEN OneMore(@) ELSE @]
<1>1. jobs[j] \in Job
  BY DEF QueueInv, QueueTypeOK
<1>2. row \in Job /\ row.source = jobs[j].source /\ row.kind = jobs[j].kind
  BY <1>1, OneMoreType DEF Job, JobStatus
<1>3. jobs' = [jobs EXCEPT ![j] = row]
  BY DEF FailJob
<1>. HIDE DEF row
<1>. QED  BY <1>2, <1>3, UpdateRowInv

LEMMA RetryTimeReachedInv ==
  ASSUME QueueInv, NEW j \in Rows, RetryTimeReached(j)
  PROVE  QueueInv'
<1>. DEFINE row == [jobs[j] EXCEPT !.due = TRUE]
<1>1. jobs[j] \in Job
  BY DEF QueueInv, QueueTypeOK
<1>2. row \in Job /\ row.source = jobs[j].source /\ row.kind = jobs[j].kind
  BY <1>1 DEF Job, JobStatus
<1>3. IsActive(j) /\ jobs' = [jobs EXCEPT ![j] = row]
  BY DEF RetryTimeReached, IsActive
<1>. HIDE DEF row
<1>. QED  BY <1>2, <1>3, UpdateRowInv

LEMMA CompleteJobInv ==
  ASSUME QueueInv, NEW j, CompleteJob(j)
  PROVE  QueueInv'
BY DEF CompleteJob, QueueInv, QueueTypeOK, ActiveUnique, Rows, IsActive, SameWork

LEMMA ReclaimInv ==
  ASSUME QueueInv, ReclaimRunningJobs
  PROVE  QueueInv'
<1>1. Rows' = Rows /\ \A j \in Rows :
        /\ jobs'[j] \in Job
        /\ jobs'[j].source = jobs[j].source /\ jobs'[j].kind = jobs[j].kind
        /\ jobs'[j].status \in {"pending", "running"} => IsActive(j)
  BY DEF ReclaimRunningJobs, QueueInv, QueueTypeOK, Rows, Job, JobStatus, IsActive
<1>2. QueueTypeOK'
  BY <1>1 DEF QueueInv, QueueTypeOK
<1>3. ActiveUnique'
  BY <1>1 DEF QueueInv, ActiveUnique, IsActive, SameWork
<1>. QED  BY <1>2, <1>3 DEF QueueInv

(* The one-statement retry is safe exactly because it is refused whenever   *)
(* two of the rows it would activate are the same work.                     *)
LEMMA RetryFailedJobsInv ==
  ASSUME QueueInv, RetryFailedJobs
  PROVE  QueueInv'
<1>1. CASE RetryCollides
  BY <1>1 DEF RetryFailedJobs, QueueInv, QueueTypeOK, ActiveUnique, Rows, IsActive, SameWork
<1>2. CASE ~RetryCollides
  <2>1. Rows' = Rows /\ \A j \in Rows :
          /\ jobs'[j] \in Job
          /\ jobs'[j].source = jobs[j].source /\ jobs'[j].kind = jobs[j].kind
          /\ jobs[j].status # "failed" => jobs'[j] = jobs[j]
    <3>1. jobs' = Unparked
      BY <1>2 DEF RetryFailedJobs
    <3>2. Rows' = Rows
      BY <3>1 DEF Unparked, Rows
    <3>3. ASSUME NEW j \in Rows, jobs[j].status = "failed"
          PROVE  /\ jobs'[j] \in Job
                 /\ jobs'[j].source = jobs[j].source /\ jobs'[j].kind = jobs[j].kind
      <4>1. jobs'[j] = [jobs[j] EXCEPT !.status = "pending", !.due = TRUE, !.attempts = 0,
                                       !.permanent = 0]
        BY <3>1, <3>3 DEF Unparked
      <4>2. jobs[j] \in Job
        BY DEF QueueInv, QueueTypeOK
      <4>3. 0 \in 0..MaxAttempts
        BY MaxAttemptsAssumption
      <4>4. jobs'[j] = [source |-> jobs[j].source, kind |-> jobs[j].kind, status |-> "pending",
                        due |-> TRUE, attempts |-> 0, permanent |-> 0]
        BY <4>1, <4>2 DEF Job
      <4>. QED  BY <4>2, <4>3, <4>4 DEF Job, JobStatus
    <3>4. ASSUME NEW j \in Rows, jobs[j].status # "failed"
          PROVE  jobs'[j] = jobs[j] /\ jobs'[j] \in Job
      BY <3>1, <3>4 DEF Unparked, QueueInv, QueueTypeOK
    <3>. QED  BY <3>2, <3>3, <3>4
  <2>2. QueueTypeOK'
    BY <2>1 DEF QueueInv, QueueTypeOK
  <2>3. ActiveUnique'
    BY <1>2, <2>1 DEF QueueInv, ActiveUnique, IsActive, SameWork, RetryCollides
  <2>. QED  BY <2>2, <2>3 DEF QueueInv
<1>. QED  BY <1>1, <1>2
=============================================================================
