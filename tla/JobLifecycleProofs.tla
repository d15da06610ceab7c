------------------------- MODULE JobLifecycleProofs -------------------------
(* Theorems about JobLifecycle, for every value of its constants. *)
EXTENDS JobLifecycle, TLAPS

USE ConstantsAssumption

-----------------------------------------------------------------------------
(***************************************************************************)
(* Type correctness                                                        *)
(***************************************************************************)

LEMMA InitTypeOK == Init => TypeOK
  BY DEF Init, TypeOK, Statuses, Steps, Messages, Idle

\* A step of a POST preserves the types.
LEMMA PostTypeOK ==
  ASSUME TypeOK, NEW c \in Callers, Post(c)
  PROVE  TypeOK'
<1> USE DEF TypeOK, Statuses, Steps, Messages, Idle, JobOf, db, broker, worker, budget, history
<1>1. ASSUME NEW j \in Jobs, NEW q \in Queries, InsertJob(c, j, q)
      PROVE  TypeOK'
  BY <1>1 DEF InsertJob
<1>2. ASSUME NEW j \in Jobs, NEW q \in Queries, ReplayJob(c, j, q)
      PROVE  TypeOK'
  BY <1>2 DEF ReplayJob
<1>3. ASSUME NEW t \in Tasks, Enqueue(c, t)
      PROVE  TypeOK'
  <2>1. call[c].job \in Jobs /\ call[c].query \in Queries
    BY <1>3 DEF Enqueue
  <2>2. /\ taskJob' \in [Tasks -> Jobs \cup {NoJob}]
        /\ taskQuery' \in [Tasks -> Queries \cup {NoQuery}]
        /\ queue' \in [Messages -> Nat]
        /\ call' \in [Callers -> [job : Jobs, query : Queries] \cup {Idle}]
    BY <1>3, <2>1 DEF Enqueue
  <2>3. \A s \in Tasks : taskJob[s] \in Jobs => taskJob'[s] \in Jobs
    BY <1>3, <2>1 DEF Enqueue
  <2>4. \A w \in Workers : pc[w] # "idle" => task[w] \in Tasks /\ JobOf(w)' \in Jobs
    BY <1>3, <2>3 DEF Enqueue
  <2>5. \A m \in Messages : queue'[m] > 0 => taskJob'[m[1]] \in Jobs
    BY <1>3, <2>1, <2>3 DEF Enqueue
  <2>6. QED
    BY <1>3, <2>2, <2>4, <2>5 DEF Enqueue
<1>4. ASSUME EnqueueFails(c)
      PROVE  TypeOK'
  BY <1>4 DEF EnqueueFails
<1>5. QED
  BY <1>1, <1>2, <1>3, <1>4 DEF Post

\* A step of a worker, or a kill or redelivery, preserves the types.
LEMMA WorkerTypeOK ==
  ASSUME TypeOK, NEW w \in Workers, Fetch(w) \/ Work(w) \/ Crash(w) \/ LoseChild(w) \/ VisibilityTimeout(w)
  PROVE  TypeOK'
<1> USE DEF TypeOK, Statuses, Steps, Messages, Idle, JobOf, Goto, Release, Escape,
            db, broker, worker, budget, history
<1>1. ASSUME NEW t \in Tasks, NEW r \in 0..MaxRetries, Deliver(w, t, r)
      PROVE  TypeOK'
  BY <1>1 DEF Deliver
<1>2. CASE CountAttempt(w)
  BY <1>2 DEF CountAttempt
<1>3. CASE CountAttemptFails(w)
  BY <1>3 DEF CountAttemptFails
<1>4. CASE TryClaimRun(w)
  BY <1>4 DEF TryClaimRun
<1>5. CASE ClaimRefused(w)
  BY <1>5 DEF ClaimRefused
<1>6. CASE ClaimFails(w)
  BY <1>6 DEF ClaimFails
<1>7. CASE PersistSuccess(w)
  BY <1>7 DEF PersistSuccess
<1>8. CASE PersistConflicts(w)
  BY <1>8 DEF PersistConflicts
<1>9. CASE RecordFailure(w)
  BY <1>9 DEF RecordFailure
<1>10. CASE RecordFails(w)
  BY <1>10 DEF RecordFails
<1>11. CASE Dispose(w)
  BY <1>11 DEF Dispose
<1>12. CASE DisposeFails(w)
  BY <1>12 DEF DisposeFails
<1>13. CASE Retry(w)
  BY <1>13 DEF Retry
<1>14. CASE RetriesExhausted(w)
  BY <1>14 DEF RetriesExhausted
<1>15. CASE MarkPermanentlyFailed(w)
  BY <1>15 DEF MarkPermanentlyFailed
<1>16. CASE MarkPermanentlyFailedFails(w)
  BY <1>16 DEF MarkPermanentlyFailedFails
<1>17. CASE DeadLetter(w)
  BY <1>17 DEF DeadLetter
<1>18. CASE DeadLetterFails(w)
  BY <1>18 DEF DeadLetterFails
<1>19. CASE Ack(w)
  BY <1>19 DEF Ack
<1>20. CASE Crash(w)
  BY <1>20 DEF Crash, Kill, Redeliver
<1>21. CASE VisibilityTimeout(w)
  BY <1>21 DEF VisibilityTimeout, Redeliver
<1>22. CASE LoseChild(w)
  BY <1>22 DEF LoseChild, Kill
<1>23. QED
  BY <1>1, <1>2, <1>3, <1>4, <1>5, <1>6, <1>7, <1>8, <1>9, <1>10, <1>11, <1>12, <1>13,
     <1>14, <1>15, <1>16, <1>17, <1>18, <1>19, <1>20, <1>21, <1>22 DEF Fetch, Work

THEOREM TypeCorrect == Spec => []TypeOK
<1>1. TypeOK /\ [Next]_vars => TypeOK'
  <2> SUFFICES ASSUME TypeOK, [Next]_vars
               PROVE  TypeOK'
    OBVIOUS
  <2>1. CASE Next
    BY <2>1, PostTypeOK, WorkerTypeOK DEF Next
  <2>2. CASE UNCHANGED vars
    BY <2>2 DEF TypeOK, JobOf, vars, db, broker, worker, budget, history
  <2>3. QED
    BY <2>1, <2>2
<1>2. QED
  BY InitTypeOK, <1>1, PTL DEF Spec
-----------------------------------------------------------------------------
(***************************************************************************)
(* One run at a time, under a RUNNING row, and a report exactly when the   *)
(* row says COMPLETED - for every job on_failure() has not overwritten.    *)
(* The three conjuncts are inductive together: try_claim_run() is safe     *)
(* because a live run implies RUNNING, and _persist_success() because      *)
(* RUNNING implies that no report is there yet.                            *)
(***************************************************************************)

\* A POST touches neither a run nor a report.
LEMMA PostRunSafety ==
  ASSUME TypeOK, RunSafety, NEW c \in Callers, Post(c)
  PROVE  RunSafety'
<1> USE DEF RunSafety, OneRunnerPerJob, RunnerOwnsRow, ReportMatchesStatus, Runs, JobOf,
            TypeOK, db, broker, worker, budget, history
<1>1. ASSUME NEW j \in Jobs, NEW q \in Queries, InsertJob(c, j, q)
      PROVE  RunSafety'
  BY <1>1 DEF InsertJob
<1>2. ASSUME NEW j \in Jobs, NEW q \in Queries, ReplayJob(c, j, q)
      PROVE  RunSafety'
  BY <1>2 DEF ReplayJob
<1>3. ASSUME NEW t \in Tasks, Enqueue(c, t)
      PROVE  RunSafety'
  <2>1. \A w \in Workers : pc[w] = "running" => JobOf(w)' = JobOf(w)
    BY <1>3 DEF Enqueue
  <2>2. QED
    BY <1>3, <2>1 DEF Enqueue
<1>4. ASSUME EnqueueFails(c)
      PROVE  RunSafety'
  BY <1>4 DEF EnqueueFails
<1>5. QED
  BY <1>1, <1>2, <1>3, <1>4 DEF Post

\* A step of a worker preserves the three conjuncts.
LEMMA WorkerRunSafety ==
  ASSUME TypeOK, RunSafety, NEW w \in Workers,
         Fetch(w) \/ Work(w) \/ Crash(w) \/ LoseChild(w) \/ VisibilityTimeout(w)
  PROVE  RunSafety'
<1> USE DEF RunSafety, OneRunnerPerJob, RunnerOwnsRow, ReportMatchesStatus, Runs, JobOf,
            TypeOK, Statuses, Goto, Release, Escape, Claimable, db, broker, worker,
            budget, history
<1>1. ASSUME NEW t \in Tasks, NEW r \in 0..MaxRetries, Deliver(w, t, r)
      PROVE  RunSafety'
  BY <1>1 DEF Deliver
<1>2. CASE CountAttempt(w)
  BY <1>2 DEF CountAttempt
<1>3. CASE CountAttemptFails(w)
  BY <1>3 DEF CountAttemptFails
<1>4. CASE TryClaimRun(w)
  BY <1>4 DEF TryClaimRun
<1>5. CASE ClaimRefused(w)
  BY <1>5 DEF ClaimRefused
<1>6. CASE ClaimFails(w)
  BY <1>6 DEF ClaimFails
<1>7. CASE PersistSuccess(w)
  BY <1>7 DEF PersistSuccess
<1>8. CASE PersistConflicts(w)
  BY <1>8 DEF PersistConflicts
<1>9. CASE RecordFailure(w)
  BY <1>9 DEF RecordFailure
<1>10. CASE RecordFails(w)
  BY <1>10 DEF RecordFails
<1>11. CASE Dispose(w)
  BY <1>11 DEF Dispose
<1>12. CASE DisposeFails(w)
  BY <1>12 DEF DisposeFails
<1>13. CASE Retry(w)
  BY <1>13 DEF Retry
<1>14. CASE RetriesExhausted(w)
  BY <1>14 DEF RetriesExhausted
<1>15. CASE MarkPermanentlyFailed(w)
  BY <1>15 DEF MarkPermanentlyFailed
<1>16. CASE MarkPermanentlyFailedFails(w)
  BY <1>16 DEF MarkPermanentlyFailedFails
<1>17. CASE DeadLetter(w)
  BY <1>17 DEF DeadLetter
<1>18. CASE DeadLetterFails(w)
  BY <1>18 DEF DeadLetterFails
<1>19. CASE Ack(w)
  BY <1>19 DEF Ack
<1>20. CASE Crash(w)
  BY <1>20 DEF Crash, Kill, Redeliver
<1>21. CASE VisibilityTimeout(w)
  BY <1>21 DEF VisibilityTimeout, Redeliver
<1>22. CASE LoseChild(w)
  BY <1>22 DEF LoseChild, Kill
<1>23. QED
  BY <1>1, <1>2, <1>3, <1>4, <1>5, <1>6, <1>7, <1>8, <1>9, <1>10, <1>11, <1>12, <1>13,
     <1>14, <1>15, <1>16, <1>17, <1>18, <1>19, <1>20, <1>21, <1>22 DEF Fetch, Work

\* run_claimed_request() and _persist_success(): for every number of workers,
\* redeliveries, crashes and faults, a job not overwritten by on_failure() has
\* one run at a time, under a RUNNING row, and a report iff it is COMPLETED.
THEOREM RunSafetyHolds == Spec => []RunSafety
<1>1. Init => RunSafety
  BY DEF Init, RunSafety, OneRunnerPerJob, RunnerOwnsRow, ReportMatchesStatus, Runs
<1>2. TypeOK /\ RunSafety /\ [Next]_vars => RunSafety'
  <2> SUFFICES ASSUME TypeOK, RunSafety, [Next]_vars
               PROVE  RunSafety'
    OBVIOUS
  <2>1. CASE Next
    BY <2>1, PostRunSafety, WorkerRunSafety DEF Next
  <2>2. CASE UNCHANGED vars
    BY <2>2 DEF RunSafety, OneRunnerPerJob, RunnerOwnsRow, ReportMatchesStatus, Runs,
                JobOf, vars, db, broker, worker, budget, history
  <2>3. QED
    BY <2>1, <2>2
<1>3. QED
  BY <1>1, <1>2, TypeCorrect, PTL DEF Spec
-----------------------------------------------------------------------------
(***************************************************************************)
(* A message carries the query its row was created with.  The argument     *)
(* needs the claims that are still to be enqueued: between the comparison  *)
(* of the hashes and delay(), nothing can change the row's query.          *)
(***************************************************************************)

QueryInv ==
  /\ MessageCarriesRowQuery
  /\ \A c \in Callers : call[c] # Idle =>
       query[call[c].job] = call[c].query /\ status[call[c].job] # "absent"
  /\ \A t \in Tasks : taskJob[t] # NoJob => status[taskJob[t]] # "absent"

\* No step of a POST breaks QueryInv.
LEMMA PostQueryInv ==
  ASSUME TypeOK, QueryInv, NEW c \in Callers, Post(c)
  PROVE  QueryInv'
<1> USE DEF QueryInv, MessageCarriesRowQuery, TypeOK, Statuses, Idle, JobOf,
            db, broker, worker, budget, history
<1>1. ASSUME NEW j \in Jobs, NEW q \in Queries, InsertJob(c, j, q)
      PROVE  QueryInv'
  BY <1>1 DEF InsertJob
<1>2. ASSUME NEW j \in Jobs, NEW q \in Queries, ReplayJob(c, j, q)
      PROVE  QueryInv'
  BY <1>2 DEF ReplayJob, MayEnqueue
<1>3. ASSUME NEW t \in Tasks, Enqueue(c, t)
      PROVE  QueryInv'
  BY <1>3 DEF Enqueue
<1>4. ASSUME EnqueueFails(c)
      PROVE  QueryInv'
  BY <1>4 DEF EnqueueFails
<1>5. QED
  BY <1>1, <1>2, <1>3, <1>4 DEF Post

\* No step of a worker does.
LEMMA WorkerQueryInv ==
  ASSUME TypeOK, QueryInv, NEW w \in Workers,
         Fetch(w) \/ Work(w) \/ Crash(w) \/ LoseChild(w) \/ VisibilityTimeout(w)
  PROVE  QueryInv'
<1> USE DEF QueryInv, MessageCarriesRowQuery, TypeOK, Statuses, Idle, JobOf,
            db, broker, worker, budget, history, Goto, Release, Escape, Claimable
<1>1. ASSUME NEW t \in Tasks, NEW r \in 0..MaxRetries, Deliver(w, t, r)
      PROVE  QueryInv'
  BY <1>1 DEF Deliver
<1>2. CASE CountAttempt(w)
  BY <1>2 DEF CountAttempt
<1>3. CASE CountAttemptFails(w)
  BY <1>3 DEF CountAttemptFails
<1>4. CASE TryClaimRun(w)
  BY <1>4 DEF TryClaimRun
<1>5. CASE ClaimRefused(w)
  BY <1>5 DEF ClaimRefused
<1>6. CASE ClaimFails(w)
  BY <1>6 DEF ClaimFails
<1>7. CASE PersistSuccess(w)
  BY <1>7 DEF PersistSuccess
<1>8. CASE PersistConflicts(w)
  BY <1>8 DEF PersistConflicts
<1>9. CASE RecordFailure(w)
  BY <1>9 DEF RecordFailure
<1>10. CASE RecordFails(w)
  BY <1>10 DEF RecordFails
<1>11. CASE Dispose(w)
  BY <1>11 DEF Dispose
<1>12. CASE DisposeFails(w)
  BY <1>12 DEF DisposeFails
<1>13. CASE Retry(w)
  BY <1>13 DEF Retry
<1>14. CASE RetriesExhausted(w)
  BY <1>14 DEF RetriesExhausted
<1>15. CASE MarkPermanentlyFailed(w)
  BY <1>15 DEF MarkPermanentlyFailed
<1>16. CASE MarkPermanentlyFailedFails(w)
  BY <1>16 DEF MarkPermanentlyFailedFails
<1>17. CASE DeadLetter(w)
  BY <1>17 DEF DeadLetter
<1>18. CASE DeadLetterFails(w)
  BY <1>18 DEF DeadLetterFails
<1>19. CASE Ack(w)
  BY <1>19 DEF Ack
<1>20. CASE Crash(w)
  BY <1>20 DEF Crash, Kill, Redeliver
<1>21. CASE VisibilityTimeout(w)
  BY <1>21 DEF VisibilityTimeout, Redeliver
<1>22. CASE LoseChild(w)
  BY <1>22 DEF LoseChild, Kill
<1>23. QED
  BY <1>1, <1>2, <1>3, <1>4, <1>5, <1>6, <1>7, <1>8, <1>9, <1>10, <1>11, <1>12,
     <1>13, <1>14, <1>15, <1>16, <1>17, <1>18, <1>19, <1>20, <1>21, <1>22 DEF Fetch, Work

\* The three conjuncts are inductive.
LEMMA QueryInvHolds == Spec => []QueryInv
<1>1. Init => QueryInv
  BY DEF Init, QueryInv, MessageCarriesRowQuery, TypeOK, Statuses, Idle, JobOf,
           db, broker, worker, budget, history
<1>2. TypeOK /\ QueryInv /\ [Next]_vars => QueryInv'
  <2> SUFFICES ASSUME TypeOK, QueryInv, [Next]_vars
               PROVE  QueryInv'
    OBVIOUS
  <2>1. CASE Next
    BY <2>1, PostQueryInv, WorkerQueryInv DEF Next
  <2>2. CASE UNCHANGED vars
    BY <2>2 DEF QueryInv, MessageCarriesRowQuery, TypeOK, Statuses, Idle, JobOf,
           db, broker, worker, budget, history, vars
  <2>3. QED
    BY <2>1, <2>2
<1>3. QED
  BY <1>1, <1>2, TypeCorrect, PTL DEF Spec

\* claim_request()'s payload_conflict and create_report()'s 409: for any number
\* of concurrent POSTs, no task runs a query its job was not created with.
THEOREM MessageCarriesRowQueryHolds == Spec => []MessageCarriesRowQuery
<1>1. QueryInv => MessageCarriesRowQuery
  BY DEF QueryInv
<1>2. QED
  BY QueryInvHolds, <1>1, PTL

-----------------------------------------------------------------------------
(***************************************************************************)
(* No silent loss: while its job is PENDING, a task that was not lost has  *)
(* a message in the queue, or with a worker that will retry it, claim the  *)
(* row or mark it FAILED.                                                  *)
(***************************************************************************)

Alive(t) ==
  \/ \E m \in Messages : m[1] = t /\ queue[m] > 0
  \/ \E w \in Workers :
       pc[w] \in {"received", "counted", "escaped", "exhausted"} /\ task[w] = t

LossInv ==
  \A t \in Tasks \ lost :
    taskJob[t] # NoJob /\ status[taskJob[t]] = "pending" => Alive(t)

\* No step of a POST breaks LossInv.
LEMMA PostLossInv ==
  ASSUME TypeOK, QueryInv, LossInv, NEW c \in Callers, Post(c)
  PROVE  LossInv'
<1> USE DEF LossInv, Alive, TypeOK, Statuses, Messages, db, broker, worker, budget, history
<1>1. ASSUME NEW j \in Jobs, NEW q \in Queries, InsertJob(c, j, q)
      PROVE  LossInv'
  BY <1>1 DEF InsertJob, QueryInv
<1>2. ASSUME NEW j \in Jobs, NEW q \in Queries, ReplayJob(c, j, q)
      PROVE  LossInv'
  BY <1>2 DEF ReplayJob, MayEnqueue
<1>3. ASSUME NEW t \in Tasks, Enqueue(c, t)
      PROVE  LossInv'
  <2>1. <<t, 0>> \in Messages /\ queue'[<<t, 0>>] > 0
    BY <1>3 DEF Enqueue
  <2>2. Alive(t)'
    BY <2>1
  <2>3. ASSUME NEW s \in Tasks \ lost, s # t, taskJob'[s] # NoJob,
               status'[taskJob'[s]] = "pending"
        PROVE  Alive(s)'
    <3>1. Alive(s)
      BY <1>3, <2>3 DEF Enqueue
    <3>2. \A m \in Messages : m[1] = s => queue'[m] = queue[m]
      BY <1>3, <2>3 DEF Enqueue
    <3>3. QED
      BY <1>3, <3>1, <3>2 DEF Enqueue
  <2>4. lost' = lost
    BY <1>3 DEF Enqueue
  <2>5. QED
    BY <2>2, <2>3, <2>4
<1>4. ASSUME EnqueueFails(c)
      PROVE  LossInv'
  BY <1>4 DEF EnqueueFails
<1>5. QED
  BY <1>1, <1>2, <1>3, <1>4 DEF Post

\* No step of a worker does.
LEMMA WorkerLossInv ==
  ASSUME TypeOK, QueryInv, LossInv, NEW w \in Workers,
         Fetch(w) \/ Work(w) \/ Crash(w) \/ LoseChild(w) \/ VisibilityTimeout(w)
  PROVE  LossInv'
<1> USE DEF LossInv, Alive, TypeOK, Statuses, Messages, JobOf,
            db, broker, worker, budget, history, Goto, Release, Escape, Claimable
<1>1. ASSUME NEW t \in Tasks, NEW r \in 0..MaxRetries, Deliver(w, t, r)
      PROVE  LossInv'
  BY <1>1 DEF Deliver
<1>2. CASE CountAttempt(w)
  BY <1>2 DEF CountAttempt
<1>3. CASE CountAttemptFails(w)
  BY <1>3 DEF CountAttemptFails
<1>4. CASE TryClaimRun(w)
  BY <1>4 DEF TryClaimRun
<1>5. CASE ClaimRefused(w)
  BY <1>5 DEF ClaimRefused
<1>6. CASE ClaimFails(w)
  BY <1>6 DEF ClaimFails
<1>7. CASE PersistSuccess(w)
  BY <1>7 DEF PersistSuccess
<1>8. CASE PersistConflicts(w)
  BY <1>8 DEF PersistConflicts
<1>9. CASE RecordFailure(w)
  BY <1>9 DEF RecordFailure
<1>10. CASE RecordFails(w)
  BY <1>10 DEF RecordFails
<1>11. CASE Dispose(w)
  BY <1>11 DEF Dispose
<1>12. CASE DisposeFails(w)
  BY <1>12 DEF DisposeFails
<1>13. CASE Retry(w)
  BY <1>13 DEF Retry
<1>14. CASE RetriesExhausted(w)
  BY <1>14 DEF RetriesExhausted
<1>15. CASE MarkPermanentlyFailed(w)
  BY <1>15 DEF MarkPermanentlyFailed
<1>16. CASE MarkPermanentlyFailedFails(w)
  BY <1>16 DEF MarkPermanentlyFailedFails
<1>17. CASE DeadLetter(w)
  BY <1>17 DEF DeadLetter
<1>18. CASE DeadLetterFails(w)
  BY <1>18 DEF DeadLetterFails
<1>19. CASE Ack(w)
  BY <1>19 DEF Ack
<1>20. CASE Crash(w)
  BY <1>20 DEF Crash, Kill, Redeliver
<1>21. CASE VisibilityTimeout(w)
  BY <1>21 DEF VisibilityTimeout, Redeliver
<1>22. CASE LoseChild(w)
  BY <1>22 DEF LoseChild, Kill
<1>23. QED
  BY <1>1, <1>2, <1>3, <1>4, <1>5, <1>6, <1>7, <1>8, <1>9, <1>10, <1>11, <1>12,
     <1>13, <1>14, <1>15, <1>16, <1>17, <1>18, <1>19, <1>20, <1>21, <1>22 DEF Fetch, Work

\* task_acks_late and autoretry_for: no task is over while its job is PENDING,
\* whatever is killed, redelivered or retried, unless the pool process that held
\* its message was killed or on_failure()'s own UPDATE failed.
THEOREM NoSilentLossHolds == Spec => []NoSilentLoss
<1>1. Init => LossInv
  BY DEF Init, LossInv
<1>2. TypeOK /\ QueryInv /\ LossInv /\ [Next]_vars => LossInv'
  <2> SUFFICES ASSUME TypeOK, QueryInv, LossInv, [Next]_vars
               PROVE  LossInv'
    OBVIOUS
  <2>1. CASE Next
    BY <2>1, PostLossInv, WorkerLossInv DEF Next
  <2>2. CASE UNCHANGED vars
    BY <2>2 DEF LossInv, Alive, vars, db, broker, worker, budget, history
  <2>3. QED
    BY <2>1, <2>2
<1>3. Spec => []LossInv
  BY <1>1, <1>2, TypeCorrect, QueryInvHolds, PTL DEF Spec
<1>4. TypeOK /\ LossInv => NoSilentLoss
  BY DEF LossInv, Alive, NoSilentLoss, Over, TypeOK, Messages
<1>5. QED
  BY <1>3, <1>4, TypeCorrect, QueryInvHolds, PTL

-----------------------------------------------------------------------------
(***************************************************************************)
(* The only causes of a stranded RUNNING row.                              *)
(***************************************************************************)

RunnerInv == RunningHasRunner

\* No step of a POST breaks RunnerInv.
LEMMA PostRunnerInv ==
  ASSUME TypeOK, RunSafety, RunnerInv, NEW c \in Callers, Post(c)
  PROVE  RunnerInv'
<1> USE DEF RunnerInv, RunningHasRunner, Stranded, RunSafety, OneRunnerPerJob, RunnerOwnsRow,
            ReportMatchesStatus, Runs, TypeOK, Statuses, JobOf, db, broker, worker,
            budget, history
<1>1. ASSUME NEW j \in Jobs, NEW q \in Queries, InsertJob(c, j, q)
      PROVE  RunnerInv'
  BY <1>1 DEF InsertJob
<1>2. ASSUME NEW j \in Jobs, NEW q \in Queries, ReplayJob(c, j, q)
      PROVE  RunnerInv'
  BY <1>2 DEF ReplayJob, MayEnqueue
<1>3. ASSUME NEW t \in Tasks, Enqueue(c, t)
      PROVE  RunnerInv'
  BY <1>3 DEF Enqueue
<1>4. ASSUME EnqueueFails(c)
      PROVE  RunnerInv'
  BY <1>4 DEF EnqueueFails
<1>5. QED
  BY <1>1, <1>2, <1>3, <1>4 DEF Post

\* No step of a worker does.
LEMMA WorkerRunnerInv ==
  ASSUME TypeOK, RunSafety, RunnerInv, NEW w \in Workers,
         Fetch(w) \/ Work(w) \/ Crash(w) \/ LoseChild(w) \/ VisibilityTimeout(w)
  PROVE  RunnerInv'
<1> USE DEF RunnerInv, RunningHasRunner, Stranded, RunSafety, OneRunnerPerJob, RunnerOwnsRow,
            ReportMatchesStatus, Runs, TypeOK, Statuses, JobOf, db, broker, worker,
            budget, history, Goto, Release, Escape, Claimable
<1>1. ASSUME NEW t \in Tasks, NEW r \in 0..MaxRetries, Deliver(w, t, r)
      PROVE  RunnerInv'
  BY <1>1 DEF Deliver
<1>2. CASE CountAttempt(w)
  BY <1>2 DEF CountAttempt
<1>3. CASE CountAttemptFails(w)
  BY <1>3 DEF CountAttemptFails
<1>4. CASE TryClaimRun(w)
  BY <1>4 DEF TryClaimRun
<1>5. CASE ClaimRefused(w)
  BY <1>5 DEF ClaimRefused
<1>6. CASE ClaimFails(w)
  BY <1>6 DEF ClaimFails
<1>7. CASE PersistSuccess(w)
  BY <1>7 DEF PersistSuccess
<1>8. CASE PersistConflicts(w)
  BY <1>8 DEF PersistConflicts
<1>9. CASE RecordFailure(w)
  BY <1>9 DEF RecordFailure
<1>10. CASE RecordFails(w)
  BY <1>10 DEF RecordFails
<1>11. CASE Dispose(w)
  BY <1>11 DEF Dispose
<1>12. CASE DisposeFails(w)
  BY <1>12 DEF DisposeFails
<1>13. CASE Retry(w)
  BY <1>13 DEF Retry
<1>14. CASE RetriesExhausted(w)
  BY <1>14 DEF RetriesExhausted
<1>15. CASE MarkPermanentlyFailed(w)
  BY <1>15 DEF MarkPermanentlyFailed
<1>16. CASE MarkPermanentlyFailedFails(w)
  BY <1>16 DEF MarkPermanentlyFailedFails
<1>17. CASE DeadLetter(w)
  BY <1>17 DEF DeadLetter
<1>18. CASE DeadLetterFails(w)
  BY <1>18 DEF DeadLetterFails
<1>19. CASE Ack(w)
  BY <1>19 DEF Ack
<1>20. CASE Crash(w)
  BY <1>20 DEF Crash, Kill, Redeliver
<1>21. CASE VisibilityTimeout(w)
  BY <1>21 DEF VisibilityTimeout, Redeliver
<1>22. CASE LoseChild(w)
  BY <1>22 DEF LoseChild, Kill
<1>23. QED
  BY <1>1, <1>2, <1>3, <1>4, <1>5, <1>6, <1>7, <1>8, <1>9, <1>10, <1>11, <1>12,
     <1>13, <1>14, <1>15, <1>16, <1>17, <1>18, <1>19, <1>20, <1>21, <1>22 DEF Fetch, Work

\* run_claimed_request(): unless a worker was killed or the transaction that
\* records the outcome failed, a row says RUNNING only while a worker runs it.
THEOREM RunningHasRunnerHolds == Spec => []RunningHasRunner
<1>1. Init => RunnerInv
  BY DEF Init, RunnerInv, RunningHasRunner, Stranded, RunSafety, OneRunnerPerJob, RunnerOwnsRow,
           ReportMatchesStatus, Runs, TypeOK, Statuses, JobOf, db, broker, worker,
            budget, history
<1>2. TypeOK /\ RunSafety /\ RunnerInv /\ [Next]_vars => RunnerInv'
  <2> SUFFICES ASSUME TypeOK, RunSafety, RunnerInv, [Next]_vars
               PROVE  RunnerInv'
    OBVIOUS
  <2>1. CASE Next
    BY <2>1, PostRunnerInv, WorkerRunnerInv DEF Next
  <2>2. CASE UNCHANGED vars
    BY <2>2 DEF RunnerInv, RunningHasRunner, Stranded, RunSafety, OneRunnerPerJob, RunnerOwnsRow,
           ReportMatchesStatus, Runs, TypeOK, Statuses, JobOf, db, broker, worker,
           budget, history, vars
  <2>3. QED
    BY <2>1, <2>2
<1>3. Spec => []RunnerInv
  BY <1>1, <1>2, TypeCorrect, RunSafetyHolds, PTL DEF Spec
<1>4. RunnerInv => RunningHasRunner
  BY DEF RunnerInv
<1>5. QED
  BY <1>3, <1>4, TypeCorrect, RunSafetyHolds, PTL

-----------------------------------------------------------------------------
(***************************************************************************)
(* attempt_count is at least the number of attempts a message stands for:  *)
(* the retries header counts the attempts before it, each of which         *)
(* committed its increment.                                                *)
(***************************************************************************)

RetryInv ==
  "increment" \notin FaultPoints =>
    /\ \A m \in Messages : queue[m] > 0 => attemptCount[taskJob[m[1]]] >= m[2]
    /\ \A w \in Workers :
         /\ pc[w] = "received" => attemptCount[JobOf(w)] >= retries[w]
         /\ pc[w] \notin {"idle", "received"} => attemptCount[JobOf(w)] > retries[w]
         /\ pc[w] \in {"exhausted", "deadletter"} => retries[w] = MaxRetries
    /\ \A t \in dead : taskJob[t] \in Jobs /\ attemptCount[taskJob[t]] > MaxRetries

\* No step of a POST breaks RetryInv.
LEMMA PostRetryInv ==
  ASSUME TypeOK, RetryInv, NEW c \in Callers, Post(c)
  PROVE  RetryInv'
<1> USE DEF RetryInv, TypeOK, Statuses, Messages, JobOf, db, broker, worker, budget, history
<1>1. ASSUME NEW j \in Jobs, NEW q \in Queries, InsertJob(c, j, q)
      PROVE  RetryInv'
  BY <1>1 DEF InsertJob
<1>2. ASSUME NEW j \in Jobs, NEW q \in Queries, ReplayJob(c, j, q)
      PROVE  RetryInv'
  BY <1>2 DEF ReplayJob, MayEnqueue
<1>3. ASSUME NEW t \in Tasks, Enqueue(c, t)
      PROVE  RetryInv'
  BY <1>3 DEF Enqueue
<1>4. ASSUME EnqueueFails(c)
      PROVE  RetryInv'
  BY <1>4 DEF EnqueueFails
<1>5. QED
  BY <1>1, <1>2, <1>3, <1>4 DEF Post

\* No step of a worker does.
LEMMA WorkerRetryInv ==
  ASSUME TypeOK, RetryInv, NEW w \in Workers,
         Fetch(w) \/ Work(w) \/ Crash(w) \/ LoseChild(w) \/ VisibilityTimeout(w)
  PROVE  RetryInv'
<1> USE DEF RetryInv, TypeOK, Statuses, Messages, JobOf, db, broker, worker, budget, history,
            Goto, Release, Escape, Claimable
<1>1. ASSUME NEW t \in Tasks, NEW r \in 0..MaxRetries, Deliver(w, t, r)
      PROVE  RetryInv'
  BY <1>1 DEF Deliver
<1>2. CASE CountAttempt(w)
  BY <1>2 DEF CountAttempt
<1>3. CASE CountAttemptFails(w)
  BY <1>3 DEF CountAttemptFails
<1>4. CASE TryClaimRun(w)
  BY <1>4 DEF TryClaimRun
<1>5. CASE ClaimRefused(w)
  BY <1>5 DEF ClaimRefused
<1>6. CASE ClaimFails(w)
  BY <1>6 DEF ClaimFails
<1>7. CASE PersistSuccess(w)
  BY <1>7 DEF PersistSuccess
<1>8. CASE PersistConflicts(w)
  BY <1>8 DEF PersistConflicts
<1>9. CASE RecordFailure(w)
  BY <1>9 DEF RecordFailure
<1>10. CASE RecordFails(w)
  BY <1>10 DEF RecordFails
<1>11. CASE Dispose(w)
  BY <1>11 DEF Dispose
<1>12. CASE DisposeFails(w)
  BY <1>12 DEF DisposeFails
<1>13. CASE Retry(w)
  BY <1>13 DEF Retry
<1>14. CASE RetriesExhausted(w)
  BY <1>14 DEF RetriesExhausted
<1>15. CASE MarkPermanentlyFailed(w)
  BY <1>15 DEF MarkPermanentlyFailed
<1>16. CASE MarkPermanentlyFailedFails(w)
  BY <1>16 DEF MarkPermanentlyFailedFails
<1>17. CASE DeadLetter(w)
  BY <1>17 DEF DeadLetter
<1>18. CASE DeadLetterFails(w)
  BY <1>18 DEF DeadLetterFails
<1>19. CASE Ack(w)
  BY <1>19 DEF Ack
<1>20. CASE Crash(w)
  BY <1>20 DEF Crash, Kill, Redeliver
<1>21. CASE VisibilityTimeout(w)
  BY <1>21 DEF VisibilityTimeout, Redeliver
<1>22. CASE LoseChild(w)
  BY <1>22 DEF LoseChild, Kill
<1>23. QED
  BY <1>1, <1>2, <1>3, <1>4, <1>5, <1>6, <1>7, <1>8, <1>9, <1>10, <1>11, <1>12,
     <1>13, <1>14, <1>15, <1>16, <1>17, <1>18, <1>19, <1>20, <1>21, <1>22 DEF Fetch, Work

\* increment_attempt_count() and autoretry_for: what reaches the dead-letter
\* queue was attempted more than max_retries times, and the row shows it.
THEOREM DeadLetteredWasRetriedHolds == Spec => []DeadLetteredWasRetried
<1>1. Init => RetryInv
  BY DEF Init, RetryInv, TypeOK, Statuses, Messages, JobOf, db, broker, worker, budget, history
<1>2. TypeOK /\ RetryInv /\ [Next]_vars => RetryInv'
  <2> SUFFICES ASSUME TypeOK, RetryInv, [Next]_vars
               PROVE  RetryInv'
    OBVIOUS
  <2>1. CASE Next
    BY <2>1, PostRetryInv, WorkerRetryInv DEF Next
  <2>2. CASE UNCHANGED vars
    BY <2>2 DEF RetryInv, TypeOK, Statuses, Messages, JobOf, db, broker, worker,
       budget, history, vars
  <2>3. QED
    BY <2>1, <2>2
<1>3. Spec => []RetryInv
  BY <1>1, <1>2, TypeCorrect, PTL DEF Spec
<1>4. RetryInv => DeadLetteredWasRetried
  BY DEF RetryInv, DeadLetteredWasRetried
<1>5. QED
  BY <1>3, <1>4, TypeCorrect, PTL

-----------------------------------------------------------------------------
(***************************************************************************)
(* COMPLETED is final.                                                     *)
(***************************************************************************)

\* Nothing but an on_failure() that overwrites the row takes a job out of
\* COMPLETED: a claim matches no COMPLETED row, and only a run reaches
\* update_status() elsewhere, whose row says RUNNING.
THEOREM CompletedIsFinalHolds == Spec => CompletedIsFinal
<1>1. TypeOK /\ RunSafety /\ [Next]_vars =>
        [\A j \in Jobs : status[j] = "completed" /\ j \notin overwritten'
                            => status'[j] = "completed"]_vars
  <2> SUFFICES ASSUME TypeOK, RunSafety, Next, NEW j \in Jobs,
                      status[j] = "completed", j \notin overwritten'
               PROVE  status'[j] = "completed"
    OBVIOUS
  <2> USE DEF TypeOK, JobOf, db, history, Claimable, Escape
  <2>1. ASSUME NEW c \in Callers, Post(c)
        PROVE  status'[j] = "completed"
    BY <2>1 DEF Post, InsertJob, ReplayJob, Enqueue, EnqueueFails
  <2>2. ASSUME NEW w \in Workers, Fetch(w) \/ Crash(w) \/ LoseChild(w) \/ VisibilityTimeout(w)
        PROVE  status'[j] = "completed"
    BY <2>2 DEF Fetch, Deliver, Crash, LoseChild, Kill, VisibilityTimeout
  <2>3. ASSUME NEW w \in Workers, Work(w)
        PROVE  status'[j] = "completed"
    <3>1. CASE CountAttempt(w) \/ CountAttemptFails(w) \/ ClaimRefused(w) \/ ClaimFails(w)
      BY <3>1 DEF CountAttempt, CountAttemptFails, ClaimRefused, ClaimFails
    <3>2. CASE TryClaimRun(w)
      BY <3>2 DEF TryClaimRun
    <3>3. CASE PersistSuccess(w)
      BY <3>3 DEF PersistSuccess
    <3>4. CASE RecordFailure(w)
      <4>1. j # JobOf(w)
        BY <3>4 DEF RecordFailure, RunSafety, RunnerOwnsRow, Runs
      <4>2. QED
        BY <3>4, <4>1 DEF RecordFailure
    <3>5. CASE MarkPermanentlyFailed(w)
      BY <3>5 DEF MarkPermanentlyFailed
    <3>6. CASE \/ PersistConflicts(w) \/ RecordFails(w) \/ Dispose(w) \/ DisposeFails(w)
               \/ Retry(w) \/ RetriesExhausted(w) \/ MarkPermanentlyFailedFails(w)
               \/ DeadLetter(w) \/ DeadLetterFails(w) \/ Ack(w)
      BY <3>6 DEF PersistConflicts, RecordFails, Dispose, DisposeFails, Retry,
                  RetriesExhausted, MarkPermanentlyFailedFails, DeadLetter,
                  DeadLetterFails, Ack
    <3>7. QED
      BY <2>3, <3>1, <3>2, <3>3, <3>4, <3>5, <3>6 DEF Work
  <2>4. QED
    BY <2>1, <2>2, <2>3 DEF Next
<1>2. QED
  BY <1>1, TypeCorrect, RunSafetyHolds, PTL DEF Spec, CompletedIsFinal

-----------------------------------------------------------------------------
(***************************************************************************)
(* What a duplicate is needed for.  A job with one task of which no        *)
(* message was ever put back has at most one live copy of its message, in  *)
(* the queue or with one worker; and once the row says COMPLETED or FAILED *)
(* only what comes after the outcome is left of it.                        *)
(***************************************************************************)

Queued(m, j) == taskJob[m[1]] = j /\ queue[m] > 0
Live(w, j)   == pc[w] \notin {"idle", "returning"} /\ JobOf(w) = j

Solo(j) ==
  /\ \A m \in Messages : Queued(m, j) => queue[m] = 1
  /\ \A m, n \in Messages : Queued(m, j) /\ Queued(n, j) => m = n
  /\ \A v, w \in Workers : Live(v, j) /\ Live(w, j) => v = w
  /\ \A m \in Messages, w \in Workers : ~(Queued(m, j) /\ Live(w, j))
  /\ status[j] \in {"completed", "failed"} =>
       /\ \A m \in Messages : ~Queued(m, j)
       /\ \A w \in Workers : Live(w, j) => pc[w] \in {"disposing", "deadletter"}
  /\ j \notin overwritten

SoloInv ==
  \A j \in Jobs :
    /\ status[j] \in {"completed", "failed"} => Enqueued(j)
    /\ "dispose" \notin FaultPoints /\ ~Duplicated(j) => Solo(j)

\* No step of a POST breaks SoloInv.
LEMMA PostSolo ==
  ASSUME TypeOK, QueryInv, SoloInv, NEW c \in Callers, Post(c)
  PROVE  SoloInv'
<1> USE DEF SoloInv, Solo, Queued, Live, Duplicated, Enqueued, TypeOK, Statuses,
            Messages, JobOf, db, broker, worker, budget, history
<1>1. ASSUME NEW j \in Jobs, NEW q \in Queries, InsertJob(c, j, q)
      PROVE  SoloInv'
  BY <1>1 DEF InsertJob
<1>2. ASSUME NEW j \in Jobs, NEW q \in Queries, ReplayJob(c, j, q)
      PROVE  SoloInv'
  BY <1>2 DEF ReplayJob
<1>3. ASSUME NEW t \in Tasks, Enqueue(c, t)
      PROVE  SoloInv'
  <2> SUFFICES ASSUME NEW j \in Jobs
               PROVE  /\ status'[j] \in {"completed", "failed"} => Enqueued(j)'
                      /\ "dispose" \notin FaultPoints /\ ~Duplicated(j)' => Solo(j)'
    OBVIOUS
  <2>1. status'[j] \in {"completed", "failed"} => Enqueued(j)'
    BY <1>3 DEF Enqueue
  <2>2. ASSUME "dispose" \notin FaultPoints, ~Duplicated(j)'
        PROVE  Solo(j)'
    <3>1. Solo(j) /\ (status[j] \in {"completed", "failed"} => Enqueued(j))
      <4>1. ~Duplicated(j)
        BY <1>3, <2>2 DEF Enqueue
      <4>2. QED
        BY <2>2, <4>1 DEF SoloInv
    <3>2. \A w \in Workers : pc[w] # "idle" => JobOf(w)' = JobOf(w)
      BY <1>3 DEF Enqueue
    <3>3. CASE call[c].job # j
      <4>1. \A m \in Messages : Queued(m, j)' => Queued(m, j) /\ queue'[m] = queue[m]
        BY <1>3, <3>3 DEF Enqueue
      <4>2. QED
        BY <1>3, <3>1, <3>2, <3>3, <4>1 DEF Enqueue
    <3>4. CASE call[c].job = j
      <4>1. ~Enqueued(j) /\ taskJob'[t] = j
        BY <1>3, <2>2, <3>4 DEF Enqueue
      <4>2. \A m \in Messages : Queued(m, j)' => m = <<t, 0>> /\ queue'[m] = 1
        BY <1>3, <3>4, <4>1 DEF Enqueue
      <4>3. \A w \in Workers : ~Live(w, j)'
        BY <1>3, <3>2, <4>1 DEF Enqueue
      <4>4. status'[j] \notin {"completed", "failed"} /\ j \notin overwritten'
        BY <1>3, <3>1, <4>1 DEF Enqueue
      <4>5. QED
        BY <4>2, <4>3, <4>4
    <3>5. QED
      BY <3>3, <3>4
  <2>3. QED
    BY <2>1, <2>2
<1>4. ASSUME EnqueueFails(c)
      PROVE  SoloInv'
  BY <1>4 DEF EnqueueFails
<1>5. QED
  BY <1>1, <1>2, <1>3, <1>4 DEF Post

\* No step of a worker on the message it holds does.
LEMMA WorkSolo ==
  ASSUME TypeOK, SoloInv, NEW w \in Workers, Fetch(w) \/ Work(w)
  PROVE  SoloInv'
<1> USE DEF SoloInv, Solo, Queued, Live, Duplicated, Enqueued, Runs, TypeOK, Statuses,
            Messages, JobOf, Goto, Release, Escape, db, broker, worker, budget, history
<1>1. ASSUME NEW t \in Tasks, NEW r \in 0..MaxRetries, Deliver(w, t, r)
      PROVE  SoloInv'
  BY <1>1 DEF Deliver
<1>2. CASE CountAttempt(w)
  BY <1>2 DEF CountAttempt
<1>3. CASE CountAttemptFails(w)
  BY <1>3 DEF CountAttemptFails
<1>4. CASE TryClaimRun(w)
  BY <1>4 DEF TryClaimRun, Claimable
<1>5. CASE ClaimRefused(w)
  BY <1>5 DEF ClaimRefused, Claimable
<1>6. CASE ClaimFails(w)
  BY <1>6 DEF ClaimFails
<1>7. CASE PersistSuccess(w)
  BY <1>7 DEF PersistSuccess
<1>8. CASE PersistConflicts(w)
  BY <1>8 DEF PersistConflicts
<1>9. CASE RecordFailure(w)
  BY <1>9 DEF RecordFailure
<1>10. CASE RecordFails(w)
  BY <1>10 DEF RecordFails
<1>11. CASE Dispose(w)
  BY <1>11 DEF Dispose
<1>12. CASE DisposeFails(w)
  BY <1>12 DEF DisposeFails
<1>13. CASE Retry(w)
  <2> SUFFICES ASSUME NEW j \in Jobs, "dispose" \notin FaultPoints, ~Duplicated(j)'
               PROVE  Solo(j)'
    BY <1>13 DEF Retry
  <2>1. Solo(j)
    BY <1>13 DEF Retry
  <2>2. <<task[w], retries[w] + 1>> \in Messages
    BY <1>13 DEF Retry
  <2>3. \A v \in Workers : Live(v, j)' => v # w /\ Live(v, j) /\ pc'[v] = pc[v]
    BY <1>13 DEF Retry
  <2>4. CASE JobOf(w) # j
    <3>1. \A m \in Messages : Queued(m, j)' => Queued(m, j) /\ queue'[m] = queue[m]
      BY <1>13, <2>2, <2>4 DEF Retry
    <3>2. QED
      BY <1>13, <2>1, <2>3, <3>1 DEF Retry
  <2>5. CASE JobOf(w) = j
    <3>1. Live(w, j) /\ \A m \in Messages : ~Queued(m, j)
      BY <1>13, <2>1, <2>5 DEF Retry
    <3>2. status[j] \notin {"completed", "failed"} /\ j \notin overwritten
      BY <1>13, <2>1, <3>1 DEF Retry
    <3>3. \A m \in Messages :
            Queued(m, j)' => m = <<task[w], retries[w] + 1>> /\ queue'[m] = 1
      BY <1>13, <2>2, <3>1 DEF Retry
    <3>4. \A v \in Workers : ~Live(v, j)'
      BY <2>1, <2>3, <3>1
    <3>5. QED
      BY <1>13, <3>2, <3>3, <3>4 DEF Retry
  <2>6. QED
    BY <2>4, <2>5
<1>14. CASE RetriesExhausted(w)
  BY <1>14 DEF RetriesExhausted
<1>15. CASE MarkPermanentlyFailed(w)
  <2> SUFFICES ASSUME NEW j \in Jobs
               PROVE  /\ status'[j] \in {"completed", "failed"} => Enqueued(j)'
                      /\ "dispose" \notin FaultPoints /\ ~Duplicated(j)' => Solo(j)'
    OBVIOUS
  <2>1. status'[j] \in {"completed", "failed"} => Enqueued(j)'
    BY <1>15 DEF MarkPermanentlyFailed
  <2>2. ASSUME "dispose" \notin FaultPoints, ~Duplicated(j)'
        PROVE  Solo(j)'
    <3>1. Solo(j)
      BY <1>15, <2>2 DEF MarkPermanentlyFailed
    <3>2. \A v \in Workers : Live(v, j)' <=> Live(v, j)
      BY <1>15 DEF MarkPermanentlyFailed
    <3>3. CASE JobOf(w) # j
      BY <1>15, <3>1, <3>2, <3>3 DEF MarkPermanentlyFailed
    <3>4. CASE JobOf(w) = j
      <4>1. Live(w, j)
        BY <1>15, <3>4 DEF MarkPermanentlyFailed
      <4>2. \A v \in Workers : Live(v, j) => v = w
        BY <3>1, <4>1
      <4>3. status[j] # "completed" /\ ~\E v \in Workers : Runs(v, j)
        BY <1>15, <3>1, <4>1, <4>2 DEF MarkPermanentlyFailed
      <4>4. overwritten' = overwritten
        BY <1>15, <3>4, <4>3 DEF MarkPermanentlyFailed
      <4>5. QED
        BY <1>15, <3>1, <3>2, <4>1, <4>2, <4>4 DEF MarkPermanentlyFailed
    <3>5. QED
      BY <3>3, <3>4
  <2>3. QED
    BY <2>1, <2>2
<1>16. CASE MarkPermanentlyFailedFails(w)
  BY <1>16 DEF MarkPermanentlyFailedFails
<1>17. CASE DeadLetter(w)
  BY <1>17 DEF DeadLetter
<1>18. CASE DeadLetterFails(w)
  BY <1>18 DEF DeadLetterFails
<1>19. CASE Ack(w)
  BY <1>19 DEF Ack
<1>20. QED
  BY <1>1, <1>2, <1>3, <1>4, <1>5, <1>6, <1>7, <1>8, <1>9, <1>10, <1>11, <1>12,
     <1>13, <1>14, <1>15, <1>16, <1>17, <1>18, <1>19 DEF Fetch, Work

\* A kill or a redelivery touches the messages of one job only: it makes a
\* duplicate of that job, or leaves it with one message less.
LEMMA LossSolo ==
  ASSUME TypeOK, SoloInv, NEW w \in Workers,
         Crash(w) \/ LoseChild(w) \/ VisibilityTimeout(w)
  PROVE  SoloInv'
<1> USE DEF SoloInv, Solo, Queued, Live, Duplicated, Enqueued, TypeOK, Statuses, Messages,
            JobOf, Release, Goto, db, broker, worker, budget, history
<1>1. ASSUME Crash(w) \/ VisibilityTimeout(w)
      PROVE  SoloInv'
  <2> SUFFICES ASSUME NEW j \in Jobs, "dispose" \notin FaultPoints, ~Duplicated(j)'
               PROVE  Solo(j)'
    BY <1>1 DEF Crash, VisibilityTimeout, Kill
  <2>1. task[w] \in Tasks /\ task[w] \in resent'
    BY <1>1 DEF Crash, VisibilityTimeout, Kill, Redeliver
  <2>2. JobOf(w) # j
    BY <1>1, <2>1 DEF Crash, VisibilityTimeout
  <2>3. Solo(j)
    BY <1>1 DEF Crash, VisibilityTimeout, Redeliver
  <2>4. \A m \in Messages : Queued(m, j)' => Queued(m, j) /\ queue'[m] = queue[m]
    BY <1>1, <2>1, <2>2 DEF Crash, VisibilityTimeout, Redeliver
  <2>5. \A v \in Workers : Live(v, j)' => Live(v, j) /\ pc'[v] = pc[v]
    BY <1>1 DEF Crash, VisibilityTimeout, Kill
  <2>6. status' = status /\ overwritten' = overwritten
    BY <1>1 DEF Crash, VisibilityTimeout
  <2>7. QED
    BY <2>3, <2>4, <2>5, <2>6
<1>2. CASE LoseChild(w)
  BY <1>2 DEF LoseChild, Kill
<1>3. QED
  BY <1>1, <1>2

\* Both conjuncts of it are inductive, with what QueryInv says of the rows.
LEMMA SoloInvHolds == Spec => []SoloInv
<1>1. Init => SoloInv
  BY DEF Init, SoloInv, Solo, Queued, Live, Duplicated
<1>2. TypeOK /\ QueryInv /\ SoloInv /\ [Next]_vars => SoloInv'
  <2> SUFFICES ASSUME TypeOK, QueryInv, SoloInv, [Next]_vars
               PROVE  SoloInv'
    OBVIOUS
  <2>1. ASSUME NEW c \in Callers, Post(c)
        PROVE  SoloInv'
    BY <2>1, PostSolo
  <2>2. ASSUME NEW w \in Workers, Fetch(w) \/ Work(w)
        PROVE  SoloInv'
    BY <2>2, WorkSolo
  <2>3. ASSUME NEW w \in Workers, Crash(w) \/ LoseChild(w) \/ VisibilityTimeout(w)
        PROVE  SoloInv'
    BY <2>3, LossSolo
  <2>4. CASE UNCHANGED vars
    BY <2>4 DEF SoloInv, Solo, Queued, Live, Duplicated, Enqueued, JobOf,
                vars, db, broker, worker, budget, history
  <2>5. QED
    BY <2>1, <2>2, <2>3, <2>4 DEF Next
<1>3. QED
  BY <1>1, <1>2, TypeCorrect, QueryInvHolds, PTL DEF Spec

\* For any number of workers, kills and faults, on_failure() overwrites a result
\* or a live run only of a job that somebody has given a second message.
THEOREM LapseNeedsDuplicateHolds == Spec => []LapseNeedsDuplicate
<1>1. TypeOK /\ SoloInv => LapseNeedsDuplicate
  BY DEF TypeOK, SoloInv, Solo, LapseNeedsDuplicate
<1>2. QED
  BY <1>1, SoloInvHolds, TypeCorrect, PTL

\* Whoever stops watching at FAILED has seen the end, unless the job was
\* duplicated: no retry of the task that recorded its failure takes it up.
THEOREM FailedIsFinalHolds == Spec => FailedIsFinal
<1> DEFINE Final(j) ==
      "dispose" \notin FaultPoints /\ status[j] = "failed" =>
        status'[j] = "failed" \/ Duplicated(j)
<1>1. TypeOK /\ SoloInv /\ [Next]_vars => [\A j \in Jobs : Final(j)]_vars
  <2> SUFFICES ASSUME TypeOK, SoloInv, Next, NEW j \in Jobs,
                      "dispose" \notin FaultPoints, status[j] = "failed",
                      ~Duplicated(j)
               PROVE  status'[j] = "failed"
    OBVIOUS
  <2>1. \A w \in Workers : Live(w, j) => pc[w] \in {"disposing", "deadletter"}
    BY DEF SoloInv, Solo
  <2>2. ASSUME NEW w \in Workers, Work(w)
        PROVE  status'[j] = "failed"
    <3>1. CASE TryClaimRun(w) \/ PersistSuccess(w)
      BY <2>1, <3>1 DEF TryClaimRun, PersistSuccess, Live, TypeOK
    <3>2. CASE RecordFailure(w) \/ MarkPermanentlyFailed(w)
      BY <3>2 DEF RecordFailure, MarkPermanentlyFailed, TypeOK
    <3>3. CASE UNCHANGED status
      BY <3>3
    <3>4. QED
      BY <2>2, <3>1, <3>2, <3>3
        DEF Work, CountAttempt, CountAttemptFails, ClaimRefused, ClaimFails,
            PersistConflicts, RecordFails, Dispose, DisposeFails, Retry,
            RetriesExhausted, MarkPermanentlyFailedFails, DeadLetter, DeadLetterFails,
            Ack, Escape, db
  <2>3. ASSUME NEW c \in Callers, Post(c)
        PROVE  status'[j] = "failed"
    BY <2>3 DEF Post, InsertJob, ReplayJob, Enqueue, EnqueueFails, TypeOK, db
  <2>4. ASSUME NEW w \in Workers, Fetch(w) \/ Crash(w) \/ LoseChild(w) \/ VisibilityTimeout(w)
        PROVE  status'[j] = "failed"
    BY <2>4 DEF Fetch, Deliver, Crash, LoseChild, Kill, VisibilityTimeout, db
  <2>5. QED
    BY <2>2, <2>3, <2>4 DEF Next
<1>2. QED
  BY <1>1, SoloInvHolds, TypeCorrect, PTL DEF Spec, FailedIsFinal

-----------------------------------------------------------------------------
(***************************************************************************)
(* The lifecycle implements ExactlyOnceEffect.                             *)
(***************************************************************************)

\* The refinement mapping.
Owners == [j \in Jobs |-> {w \in Workers : Runs(w, j)}]
Done   == {j \in Jobs : report[j] /\ status[j] = "completed"}

\* A step that starts no run, ends none and leaves every row as it is: the
\* abstract variables do not change.
LEMMA Stutter ==
  ASSUME TypeOK, UNCHANGED <<status, report, overwritten>>,
         \A w \in Workers : pc[w] = "running" <=> pc'[w] = "running",
         \A w \in Workers : pc[w] = "running" => JobOf(w)' = JobOf(w)
  PROVE  UNCHANGED Effect!vars
  BY DEF Effect!vars, Runs

\* A run ends and leaves no result.
LEMMA RunAbandoned ==
  ASSUME TypeOK, RunSafety, NEW w \in Workers, pc[w] = "running", pc'[w] # "running",
         UNCHANGED <<report, overwritten>>,
         status' = status \/ status' = [status EXCEPT ![JobOf(w)] = "failed"],
         \A v \in Workers \ {w} : pc'[v] = pc[v] /\ task'[v] = task[v],
         taskJob' = taskJob
  PROVE  Effect!Next
<1>1. PICK j \in Jobs : j = JobOf(w)
  BY DEF TypeOK
<1>2. \A i \in Jobs \ {j} : Owners'[i] = Owners[i]
  BY <1>1 DEF Owners, Runs, JobOf
<1>3. Owners' = [Owners EXCEPT ![j] = Owners'[j]] /\ Owners'[j] \in SUBSET Workers
  BY <1>2 DEF Owners
<1>4. Done' \in {Done, Done \ {j}}
  BY <1>1 DEF Done, TypeOK
<1>5. CASE j \in overwritten
  <2>1. Done' \in {Done \cup {j}, Done \ {j}}
    BY <1>1, <1>4 DEF Done
  <2>2. overwritten' = overwritten \cup {j}
    BY <1>5
  <2>3. QED
    BY <1>1, <1>3, <2>1, <2>2 DEF Effect!Next, Effect!Lapse, Owners, Done
<1>6. CASE j \notin overwritten
  <2>1. status[j] = "running" /\ Owners[j] = {w} /\ Owners'[j] = {}
    BY <1>1, <1>6 DEF RunSafety, RunnerOwnsRow, OneRunnerPerJob, Owners, Runs, JobOf
  <2>2. Done' = Done
    BY <1>1, <2>1 DEF Done, TypeOK
  <2>3. Effect!Abandon(j, w)
    BY <1>1, <1>3, <2>1, <2>2 DEF Effect!Abandon, Owners, Done
  <2>4. QED
    BY <1>1, <2>3 DEF Effect!Next
<1>7. QED
  BY <1>5, <1>6

\* try_claim_run() starts a run.
LEMMA RunStarted ==
  ASSUME TypeOK, RunSafety, NEW w \in Workers, TryClaimRun(w)
  PROVE  Effect!Next
<1>1. PICK j \in Jobs : j = JobOf(w) /\ status[j] \in {"pending", "failed"}
  BY DEF TypeOK, Claimable, TryClaimRun, JobOf
<1>2. \A i \in Jobs \ {j} : Owners'[i] = Owners[i]
  BY <1>1 DEF Owners, Runs, TryClaimRun, Goto, db, worker, broker, history, JobOf
<1>3. Owners' = [Owners EXCEPT ![j] = Owners'[j]] /\ Owners'[j] \in SUBSET Workers
  BY <1>2 DEF Owners
<1>4. Done' = Done /\ j \notin Done
  BY <1>1 DEF Done, TypeOK, TryClaimRun, Goto, db, worker, broker, history, JobOf
<1>5. CASE j \in overwritten
  <2>1. overwritten' = overwritten \cup {j}
    BY <1>5 DEF TryClaimRun, history
  <2>2. Effect!Lapse(j)
    BY <1>3, <1>4, <2>1 DEF Effect!Lapse, Owners, Done
  <2>3. QED
    BY <1>1, <2>2 DEF Effect!Next
<1>6. CASE j \notin overwritten
  <2>1. Owners[j] = {} /\ Owners'[j] = {w}
    BY <1>1, <1>6 DEF RunSafety, RunnerOwnsRow, Owners, Runs, TypeOK,
                      TryClaimRun, Goto, db, worker, broker, history, JobOf
  <2>2. Effect!Start(j, w)
    BY <1>1, <1>3, <1>4, <2>1 DEF Effect!Start, Owners, Done, TryClaimRun, Goto, db,
       worker, broker, history, JobOf
  <2>3. QED
    BY <1>1, <2>2 DEF Effect!Next
<1>7. QED
  BY <1>5, <1>6

\* _persist_success() ends the run and leaves the result.
LEMMA RunFinished ==
  ASSUME TypeOK, RunSafety, NEW w \in Workers, PersistSuccess(w)
  PROVE  Effect!Next
<1>1. PICK j \in Jobs : j = JobOf(w)
  BY DEF TypeOK, PersistSuccess
<1>2. \A i \in Jobs \ {j} : Owners'[i] = Owners[i]
  BY <1>1 DEF Owners, Runs, PersistSuccess, Goto, db, worker, broker, history, JobOf
<1>3. Owners' = [Owners EXCEPT ![j] = Owners'[j]] /\ Owners'[j] \in SUBSET Workers
  BY <1>2 DEF Owners
<1>4. Done' = Done \cup {j}
  BY <1>1 DEF Done, TypeOK, PersistSuccess, Goto, db, worker, broker, history, JobOf
<1>5. CASE j \in overwritten
  <2>1. overwritten' = overwritten \cup {j}
    BY <1>5 DEF PersistSuccess, history
  <2>2. Effect!Lapse(j)
    BY <1>3, <1>4, <2>1 DEF Effect!Lapse, Owners, Done
  <2>3. QED
    BY <1>1, <2>2 DEF Effect!Next
<1>6. CASE j \notin overwritten
  <2>1. Owners[j] = {w} /\ Owners'[j] = {}
    BY <1>1, <1>6 DEF RunSafety, OneRunnerPerJob, Owners, Runs, TypeOK,
                      PersistSuccess, Goto, db, worker, broker, history, JobOf
  <2>2. Effect!Finish(j, w)
    BY <1>1, <1>3, <1>4, <2>1 DEF Effect!Finish, Owners, Done, PersistSuccess, Goto,
       db, worker, broker, history, JobOf
  <2>3. QED
    BY <1>1, <2>2 DEF Effect!Next
<1>7. QED
  BY <1>5, <1>6

\* on_failure()'s UPDATE takes the promise from the job, or changes nothing
\* that was promised.
LEMMA RowOverwritten ==
  ASSUME TypeOK, RunSafety, NEW w \in Workers, MarkPermanentlyFailed(w)
  PROVE  Effect!Next \/ UNCHANGED Effect!vars
<1>1. PICK j \in Jobs : j = JobOf(w)
  BY DEF TypeOK, MarkPermanentlyFailed
<1>2. Owners' = Owners
  BY <1>1 DEF Owners, Runs, TypeOK, MarkPermanentlyFailed, Goto, db, worker, broker, history, JobOf
<1>3. Done' = Done \ {j}
  BY <1>1 DEF Done, TypeOK, MarkPermanentlyFailed, Goto, db, worker, broker, history, JobOf
<1>4. CASE status[j] = "completed" \/ \E v \in Workers : Runs(v, j)
  <2>1. Owners = [Owners EXCEPT ![j] = Owners[j]] /\ Owners[j] \in SUBSET Workers
    BY <1>1 DEF Owners
  <2>2. overwritten' = overwritten \cup {j}
    BY <1>1, <1>4 DEF MarkPermanentlyFailed
  <2>3. Effect!Lapse(j)
    BY <1>1, <1>2, <1>3, <2>1, <2>2 DEF Effect!Lapse, Owners, Done,
       MarkPermanentlyFailed, Goto, db, worker, broker, history, JobOf
  <2>4. QED
    BY <1>1, <2>3 DEF Effect!Next
<1>5. CASE ~(status[j] = "completed" \/ \E v \in Workers : Runs(v, j))
  BY <1>1, <1>2, <1>3, <1>5 DEF Effect!vars, Owners, Done, MarkPermanentlyFailed,
     Goto, db, worker, broker, history, JobOf
<1>6. QED
  BY <1>4, <1>5

\* Every step of the lifecycle is a step of ExactlyOnceEffect or leaves its
\* variables unchanged.
LEMMA StepSimulation ==
  ASSUME TypeOK, RunSafety, Next
  PROVE  Effect!Next \/ UNCHANGED Effect!vars
<1> USE DEF Goto, Escape, Release, Redeliver, db, broker, worker, budget, history
<1>1. ASSUME NEW c \in Callers, Post(c)
      PROVE  UNCHANGED Effect!vars
  <2>1. ASSUME NEW j \in Jobs, NEW q \in Queries, InsertJob(c, j, q)
        PROVE  UNCHANGED Effect!vars
    BY <2>1 DEF InsertJob, Effect!vars, Runs, JobOf, TypeOK
  <2>2. CASE EnqueueFails(c) \/ \E j \in Jobs, q \in Queries : ReplayJob(c, j, q)
    BY <2>2, Stutter DEF EnqueueFails, ReplayJob, JobOf
  <2>3. ASSUME NEW t \in Tasks, Enqueue(c, t)
        PROVE  UNCHANGED Effect!vars
    BY <2>3, Stutter DEF Enqueue, JobOf, TypeOK
  <2>4. QED
    BY <1>1, <2>1, <2>2, <2>3 DEF Post
<1>2. ASSUME NEW w \in Workers, Fetch(w) \/ VisibilityTimeout(w)
      PROVE  UNCHANGED Effect!vars
  BY <1>2, Stutter DEF Fetch, Deliver, VisibilityTimeout, JobOf, TypeOK
<1>3. ASSUME NEW w \in Workers, Crash(w) \/ LoseChild(w)
      PROVE  Effect!Next \/ UNCHANGED Effect!vars
  <2>1. CASE pc[w] = "running"
    BY <1>3, <2>1, RunAbandoned DEF Crash, LoseChild, Kill, TypeOK
  <2>2. CASE pc[w] # "running"
    BY <1>3, <2>2, Stutter DEF Crash, LoseChild, Kill, JobOf, TypeOK
  <2>3. QED
    BY <2>1, <2>2
<1>4. ASSUME NEW w \in Workers, Work(w)
      PROVE  Effect!Next \/ UNCHANGED Effect!vars
  <2>1. CASE TryClaimRun(w)
    BY <2>1, RunStarted
  <2>2. CASE PersistSuccess(w)
    BY <2>2, RunFinished
  <2>3. CASE PersistConflicts(w) \/ RecordFailure(w) \/ RecordFails(w)
    BY <2>3, RunAbandoned DEF PersistConflicts, RecordFailure, RecordFails, TypeOK
  <2>4. CASE MarkPermanentlyFailed(w)
    BY <2>4, RowOverwritten
  <2>5. CASE CountAttempt(w) \/ CountAttemptFails(w) \/ ClaimRefused(w) \/ ClaimFails(w)
    BY <2>5, Stutter DEF CountAttempt, CountAttemptFails, ClaimRefused, ClaimFails,
       JobOf, TypeOK
  <2>6. CASE Dispose(w) \/ DisposeFails(w) \/ Retry(w) \/ RetriesExhausted(w)
    BY <2>6, Stutter DEF Dispose, DisposeFails, Retry, RetriesExhausted, JobOf, TypeOK
  <2>7. CASE \/ MarkPermanentlyFailedFails(w) \/ DeadLetter(w) \/ DeadLetterFails(w)
             \/ Ack(w)
    BY <2>7, Stutter DEF MarkPermanentlyFailedFails, DeadLetter, DeadLetterFails, Ack,
                         JobOf, TypeOK
  <2>8. QED
    BY <1>4, <2>1, <2>2, <2>3, <2>4, <2>5, <2>6, <2>7 DEF Work
<1>5. QED
  BY <1>1, <1>2, <1>3, <1>4 DEF Next

\* JobLifecycle implements the exactly-once effect: for every job on_failure()
\* has not overwritten, runs are serialised and one leaves a report at most.
THEOREM ImplementsExactlyOnceEffect == Spec => EffectSpec
<1>1. Init => Effect!Init
  BY DEF Init, Effect!Init, Runs
<1>2. TypeOK /\ RunSafety /\ [Next]_vars => [Effect!Next]_(Effect!vars)
  <2>1. CASE UNCHANGED vars
    BY <2>1 DEF vars, db, broker, worker, history, Effect!vars, Runs, JobOf
  <2>2. QED
    BY <2>1, StepSimulation
<1>3. QED
  BY <1>1, <1>2, TypeCorrect, RunSafetyHolds, PTL DEF Spec, EffectSpec, Effect!Spec
=============================================================================
