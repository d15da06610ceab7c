---------------------------- MODULE JobLifecycle ----------------------------
(***************************************************************************)
(* The life of a report job: the row create_report() claims in Postgres    *)
(* (one per (user_id, Idempotency-Key) pair, here an element of Jobs), the *)
(* Celery messages that carry it, and the workers that run                 *)
(* worker.generate_report on it.  A transaction of the code is one step;   *)
(* what happens between two transactions is the interleaving.              *)
(*                                                                         *)
(* The broker and Celery itself are external: acks_late, at-least-once     *)
(* delivery, retry() publishing a new message for the same task id, and a  *)
(* prefork pool whose parent process acknowledges for its children.        *)
(***************************************************************************)
EXTENDS Naturals, FiniteSets

CONSTANTS
  Jobs,                  \* (user_id, idempotency_key) pairs
  Queries,               \* raw_query values; their SHA-256 is taken to be injective
  Callers,               \* concurrent executions of POST /api/v1/reports
  Tasks,                 \* Celery task ids, one per generate_report.delay()
  Workers,               \* pool processes; prefetch 1, so one message each
  NoJob, NoQuery, NoTask,
  MaxRetries,            \* config.TASK_MAX_RETRIES
  FailureInjectionCount, \* config.TASK_FAILURE_INJECTION_COUNT
  FaultPoints,           \* the calls at which Postgres or Redis may fail
  MaxCrashes,            \* bound: hard kills of a worker or of a pool process
  MaxRedeliveries        \* bound: redeliveries of a message still being worked on

Faults == {"enqueue", "increment", "claim", "record", "dispose",
           "on_failure", "dead_letter"}

ASSUME ConstantsAssumption ==
  /\ NoJob \notin Jobs
  /\ NoQuery \notin Queries
  /\ NoTask \notin Tasks
  /\ MaxRetries \in Nat
  /\ FailureInjectionCount \in Nat
  /\ FaultPoints \subseteq Faults
  /\ MaxCrashes \in Nat
  /\ MaxRedeliveries \in Nat

VARIABLES
  status,       \* investment_requests.status, "absent" before the INSERT
  query,        \* what request_payload_hash was taken of
  attemptCount, \* investment_requests.attempt_count
  report,       \* whether reports holds the job's row
  call,         \* what each POST claimed and has still to enqueue
  taskJob,      \* the request_id argument of each task id ever enqueued
  taskQuery,    \* and its raw_query argument
  queue,        \* messages ready for delivery, per (task id, retries) header
  dead,         \* task ids parked on the dead-letter queue
  pc,           \* where each worker is in generate_report
  task,         \* the message a worker has not acknowledged: its task id ...
  retries,      \* ... and self.request.retries
  crashes, redeliveries,
  overwritten,  \* history: jobs whose result or live run on_failure() overwrote
  resent,       \* history: task ids of which a message was put back on the queue
  lost          \* history: task ids of which a message died with the pool process
                \* that held it, or with on_failure()'s own UPDATE

db      == <<status, query, attemptCount, report>>
broker  == <<taskJob, taskQuery, queue, dead>>
worker  == <<pc, task, retries>>
budget  == <<crashes, redeliveries>>
history == <<overwritten, resent, lost>>
vars    == <<db, call, broker, worker, budget, history>>

Statuses == {"absent", "pending", "running", "completed", "failed"}
Idle     == [job |-> NoJob, query |-> NoQuery]
Messages == Tasks \X (0..MaxRetries)

\* Places in generate_report where a worker can be between two transactions.
Steps ==
  {"idle",       \* waiting for a message
   "received",   \* before increment_attempt_count
   "counted",    \* before try_claim_run
   "running",    \* inside the graph, the row claimed
   "disposing",  \* the outcome is recorded; closing connections in the finally
   "escaped",    \* an exception left the task body
   "exhausted",  \* in on_failure(), before its UPDATE
   "deadletter", \* in on_failure(), before _route_to_dead_letter_queue
   "returning"}  \* the task is over, its message not acknowledged yet

JobOf(w) == taskJob[task[w]]

\* w is executing the graph on j.
Runs(w, j) == pc[w] = "running" /\ JobOf(w) = j

TypeOK ==
  /\ status \in [Jobs -> Statuses]
  /\ query \in [Jobs -> Queries \cup {NoQuery}]
  /\ attemptCount \in [Jobs -> Nat]
  /\ report \in [Jobs -> BOOLEAN]
  /\ call \in [Callers -> [job : Jobs, query : Queries] \cup {Idle}]
  /\ taskJob \in [Tasks -> Jobs \cup {NoJob}]
  /\ taskQuery \in [Tasks -> Queries \cup {NoQuery}]
  /\ queue \in [Messages -> Nat]
  /\ dead \subseteq Tasks
  /\ pc \in [Workers -> Steps]
  /\ task \in [Workers -> Tasks \cup {NoTask}]
  /\ retries \in [Workers -> 0..MaxRetries]
  /\ crashes \in Nat
  /\ redeliveries \in Nat
  /\ overwritten \subseteq Jobs
  /\ resent \subseteq Tasks
  /\ lost \subseteq Tasks
  /\ \A w \in Workers : pc[w] # "idle" => task[w] \in Tasks /\ JobOf(w) \in Jobs
  /\ \A m \in Messages : queue[m] > 0 => taskJob[m[1]] \in Jobs

Init ==
  /\ status = [j \in Jobs |-> "absent"]
  /\ query = [j \in Jobs |-> NoQuery]
  /\ attemptCount = [j \in Jobs |-> 0]
  /\ report = [j \in Jobs |-> FALSE]
  /\ call = [c \in Callers |-> Idle]
  /\ taskJob = [t \in Tasks |-> NoJob]
  /\ taskQuery = [t \in Tasks |-> NoQuery]
  /\ queue = [m \in Messages |-> 0]
  /\ dead = {}
  /\ pc = [w \in Workers |-> "idle"]
  /\ task = [w \in Workers |-> NoTask]
  /\ retries = [w \in Workers |-> 0]
  /\ crashes = 0
  /\ redeliveries = 0
  /\ overwritten = {}
  /\ resent = {}
  /\ lost = {}

-----------------------------------------------------------------------------
(***************************************************************************)
(* POST /api/v1/reports                                                    *)
(***************************************************************************)

\* create_idempotent(): the INSERT wins the UNIQUE(user_id, idempotency_key)
\* constraint.
InsertJob(c, j, q) ==
  /\ call[c] = Idle
  /\ status[j] = "absent"
  /\ status' = [status EXCEPT ![j] = "pending"]
  /\ query' = [query EXCEPT ![j] = q]
  /\ call' = [call EXCEPT ![c] = [job |-> j, query |-> q]]
  /\ UNCHANGED <<attemptCount, report, broker, worker, budget, history>>

\* Mutant: the payload hash is not compared.
MayEnqueueAnyQuery(j, q) == status[j] # "completed"

\* ClaimResult for an existing row: no payload_conflict, and should_run.
MayEnqueue(j, q) == query[j] = q /\ status[j] # "completed"

\* The INSERT conflicts and the existing row is replayed.  Unless should_run,
\* the request is answered at once (409, or 200 with the stored report).
ReplayJob(c, j, q) ==
  /\ call[c] = Idle
  /\ status[j] # "absent"
  /\ MayEnqueue(j, q)
  /\ call' = [call EXCEPT ![c] = [job |-> j, query |-> q]]
  /\ UNCHANGED <<db, broker, worker, budget, history>>

\* generate_report.delay(query, request_id), then the 202 or 200.
Enqueue(c, t) ==
  /\ call[c] # Idle
  /\ taskJob[t] = NoJob
  /\ taskJob' = [taskJob EXCEPT ![t] = call[c].job]
  /\ taskQuery' = [taskQuery EXCEPT ![t] = call[c].query]
  /\ queue' = [queue EXCEPT ![<<t, 0>>] = @ + 1]
  /\ call' = [call EXCEPT ![c] = Idle]
  /\ UNCHANGED <<db, dead, worker, budget, history>>

\* The API process dies, or the broker refuses, between the claim and delay().
EnqueueFails(c) ==
  /\ "enqueue" \in FaultPoints
  /\ call[c] # Idle
  /\ call' = [call EXCEPT ![c] = Idle]
  /\ UNCHANGED <<db, broker, worker, budget, history>>

-----------------------------------------------------------------------------
(***************************************************************************)
(* worker.generate_report                                                  *)
(***************************************************************************)

Goto(w, step) == pc' = [pc EXCEPT ![w] = step]

\* A transaction or broker call fails and the exception leaves the body.
Escape(w, point) ==
  /\ point \in FaultPoints
  /\ Goto(w, "escaped")
  /\ UNCHANGED <<db, call, broker, task, retries, budget, history>>

Deliver(w, t, r) ==
  /\ pc[w] = "idle"
  /\ queue[<<t, r>>] > 0
  /\ queue' = [queue EXCEPT ![<<t, r>>] = @ - 1]
  /\ Goto(w, "received")
  /\ task' = [task EXCEPT ![w] = t]
  /\ retries' = [retries EXCEPT ![w] = r]
  /\ UNCHANGED <<db, call, taskJob, taskQuery, dead, budget, history>>

\* increment_attempt_count commits, then the failure-injection knob is tested.
CountAttempt(w) ==
  /\ pc[w] = "received"
  /\ attemptCount' = [attemptCount EXCEPT ![JobOf(w)] = @ + 1]
  /\ Goto(w, IF retries[w] < FailureInjectionCount THEN "escaped" ELSE "counted")
  /\ UNCHANGED <<status, query, report, call, broker, task, retries, budget, history>>

CountAttemptFails(w) == pc[w] = "received" /\ Escape(w, "increment")

\* Mutant: the WHERE forgets that COMPLETED is final.
ClaimableWhenCompleted(j) == status[j] # "running"

Claimable(j) == status[j] \in {"pending", "failed"}

\* Mutant: the status is read, not updated.
TryClaimRunReadOnly(w) ==
  /\ pc[w] = "counted"
  /\ Claimable(JobOf(w))
  /\ Goto(w, "running")
  /\ UNCHANGED <<db, call, broker, task, retries, budget, history>>

\* try_claim_run(): UPDATE ... WHERE status IN (PENDING, FAILED) RETURNING id.
TryClaimRun(w) ==
  /\ pc[w] = "counted"
  /\ Claimable(JobOf(w))
  /\ status' = [status EXCEPT ![JobOf(w)] = "running"]
  /\ Goto(w, "running")
  /\ UNCHANGED <<query, attemptCount, report, call, broker, task, retries, budget,
                 history>>

\* No row matched: _outcome_for_already_claimed() only reads.
ClaimRefused(w) ==
  /\ pc[w] = "counted"
  /\ ~Claimable(JobOf(w))
  /\ Goto(w, "disposing")
  /\ UNCHANGED <<db, call, broker, task, retries, budget, history>>

ClaimFails(w) == pc[w] = "counted" /\ Escape(w, "claim")

\* Mutants: the report is committed without the status; or an exception
\* leaves the body after the commit.
PersistReportOnly(w) ==
  /\ pc[w] = "running"
  /\ ~report[JobOf(w)]
  /\ report' = [report EXCEPT ![JobOf(w)] = TRUE]
  /\ Goto(w, "disposing")
  /\ UNCHANGED <<status, query, attemptCount, call, broker, task, retries, budget,
                 history>>

PersistThenRaise(w) ==
  /\ pc[w] = "running"
  /\ ~report[JobOf(w)]
  /\ report' = [report EXCEPT ![JobOf(w)] = TRUE]
  /\ status' = [status EXCEPT ![JobOf(w)] = "completed"]
  /\ Goto(w, "escaped")
  /\ UNCHANGED <<query, attemptCount, call, broker, task, retries, budget, history>>

\* _persist_success(): the report's INSERT and COMPLETED, one transaction.
PersistSuccess(w) ==
  /\ pc[w] = "running"
  /\ ~report[JobOf(w)]
  /\ report' = [report EXCEPT ![JobOf(w)] = TRUE]
  /\ status' = [status EXCEPT ![JobOf(w)] = "completed"]
  /\ Goto(w, "disposing")
  /\ UNCHANGED <<query, attemptCount, call, broker, task, retries, budget, history>>

\* UNIQUE(reports.request_id) refuses a second report; nothing commits and the
\* IntegrityError leaves the body.
PersistConflicts(w) ==
  /\ pc[w] = "running"
  /\ report[JobOf(w)]
  /\ Goto(w, "escaped")
  /\ UNCHANGED <<db, call, broker, task, retries, budget, history>>

\* Mutants: the failure is not recorded; or it is, and raised again.
RecordNothing(w) ==
  /\ pc[w] = "running"
  /\ Goto(w, "disposing")
  /\ UNCHANGED <<db, call, broker, task, retries, budget, history>>

RecordFailureAndRaise(w) ==
  /\ pc[w] = "running"
  /\ status' = [status EXCEPT ![JobOf(w)] = "failed"]
  /\ Goto(w, "escaped")
  /\ UNCHANGED <<query, attemptCount, report, call, broker, task, retries, budget,
                 history>>

\* _mark_failed() after the graph raised, or _persist_success() when the graph
\* produced no financial_report: an unconditional UPDATE, and a normal return.
RecordFailure(w) ==
  /\ pc[w] = "running"
  /\ status' = [status EXCEPT ![JobOf(w)] = "failed"]
  /\ Goto(w, "disposing")
  /\ UNCHANGED <<query, attemptCount, report, call, broker, task, retries, budget,
                 history>>

\* The transaction that should record the outcome raises; the row stays RUNNING.
RecordFails(w) == pc[w] = "running" /\ Escape(w, "record")

\* The finally block closes the engine and the Redis clients; the task returns.
Dispose(w) ==
  /\ pc[w] = "disposing"
  /\ Goto(w, "returning")
  /\ UNCHANGED <<db, call, broker, task, retries, budget, history>>

\* Closing a connection raises, although the outcome is recorded.
DisposeFails(w) == pc[w] = "disposing" /\ Escape(w, "dispose")

\* Mutant: the failed attempt is acknowledged, the next one never published.
RetryLost(w) ==
  /\ pc[w] = "escaped"
  /\ retries[w] < MaxRetries
  /\ Goto(w, "returning")
  /\ UNCHANGED <<db, call, broker, task, retries, budget, history>>

\* autoretry_for=(Exception,): self.retry() publishes the next attempt.
Retry(w) ==
  /\ pc[w] = "escaped"
  /\ retries[w] < MaxRetries
  /\ queue' = [queue EXCEPT ![<<task[w], retries[w] + 1>>] = @ + 1]
  /\ Goto(w, "returning")
  /\ UNCHANGED <<db, call, taskJob, taskQuery, dead, task, retries, budget, history>>

\* Mutant: the retries are counted one short.
ExhaustedEarly(w) ==
  /\ pc[w] = "escaped"
  /\ retries[w] + 1 >= MaxRetries
  /\ Goto(w, "exhausted")
  /\ UNCHANGED <<db, call, broker, task, retries, budget, history>>

\* max_retries spent: Celery calls ReportGenerationTask.on_failure().
RetriesExhausted(w) ==
  /\ pc[w] = "escaped"
  /\ retries[w] = MaxRetries
  /\ Goto(w, "exhausted")
  /\ UNCHANGED <<db, call, broker, task, retries, budget, history>>

\* on_failure()'s UPDATE has no WHERE on the status: whatever the row says,
\* and whoever is running it, it says FAILED afterwards.
MarkPermanentlyFailed(w) ==
  LET j == JobOf(w)
      spoils == status[j] = "completed" \/ \E v \in Workers : Runs(v, j)
  IN /\ pc[w] = "exhausted"
     /\ status' = [status EXCEPT ![j] = "failed"]
     /\ overwritten' = IF spoils THEN overwritten \cup {j} ELSE overwritten
     /\ Goto(w, "deadletter")
     /\ UNCHANGED <<query, attemptCount, report, call, broker, task, retries, budget,
                    resent, lost>>

\* An exception out of on_failure() itself: Celery logs it and acknowledges.
MarkPermanentlyFailedFails(w) ==
  /\ pc[w] = "exhausted"
  /\ "on_failure" \in FaultPoints
  /\ lost' = lost \cup {task[w]}
  /\ Goto(w, "returning")
  /\ UNCHANGED <<db, call, broker, task, retries, budget, overwritten, resent>>

\* _route_to_dead_letter_queue(): nothing consumes that queue.
DeadLetter(w) ==
  /\ pc[w] = "deadletter"
  /\ dead' = dead \cup {task[w]}
  /\ Goto(w, "returning")
  /\ UNCHANGED <<db, call, taskJob, taskQuery, queue, task, retries, budget, history>>

DeadLetterFails(w) ==
  /\ pc[w] = "deadletter"
  /\ "dead_letter" \in FaultPoints
  /\ Goto(w, "returning")
  /\ UNCHANGED <<db, call, broker, task, retries, budget, history>>

Release(w) ==
  /\ Goto(w, "idle")
  /\ task' = [task EXCEPT ![w] = NoTask]
  /\ retries' = [retries EXCEPT ![w] = 0]

\* task_acks_late: the message is acknowledged when the task is over.
Ack(w) ==
  /\ pc[w] = "returning"
  /\ Release(w)
  /\ UNCHANGED <<db, call, broker, budget, history>>

-----------------------------------------------------------------------------
(***************************************************************************)
(* What acks_late leaves to the broker and to the pool                     *)
(***************************************************************************)

\* One more copy of the message w has not acknowledged.
Redeliver(w) ==
  /\ queue' = [queue EXCEPT ![<<task[w], retries[w]>>] = @ + 1]
  /\ resent' = resent \cup {task[w]}

Kill(w) ==
  /\ pc[w] # "idle"
  /\ crashes < MaxCrashes
  /\ crashes' = crashes + 1
  /\ Release(w)

\* Mutant: the message was acknowledged on receipt.
CrashAfterEarlyAck(w) ==
  /\ Kill(w)
  /\ UNCHANGED <<db, call, broker, redeliveries, history>>

\* The worker is killed, parent process and all (the container, the node):
\* nobody acknowledges, and the message goes back to the queue.
Crash(w) ==
  /\ Kill(w)
  /\ Redeliver(w)
  /\ UNCHANGED <<db, call, taskJob, taskQuery, dead, redeliveries, overwritten, lost>>

\* One process of the prefork pool is killed (the OOM killer) and its parent
\* lives.  task_reject_on_worker_lost is not set, so the parent acknowledges
\* the message, acks_late or not, and on_failure() is not called.
LoseChild(w) ==
  /\ Kill(w)
  /\ lost' = lost \cup {task[w]}
  /\ UNCHANGED <<db, call, broker, redeliveries, overwritten, resent>>

\* The visibility timeout passes while the worker is still at work.
VisibilityTimeout(w) ==
  /\ pc[w] # "idle"
  /\ redeliveries < MaxRedeliveries
  /\ redeliveries' = redeliveries + 1
  /\ Redeliver(w)
  /\ UNCHANGED <<db, call, taskJob, taskQuery, dead, worker, crashes, overwritten, lost>>

-----------------------------------------------------------------------------
Post(c) ==
  \/ \E j \in Jobs, q \in Queries : InsertJob(c, j, q) \/ ReplayJob(c, j, q)
  \/ \E t \in Tasks : Enqueue(c, t)
  \/ EnqueueFails(c)

Fetch(w) == \E t \in Tasks, r \in 0..MaxRetries : Deliver(w, t, r)

\* What a worker does with the message it holds.
Work(w) ==
  \/ CountAttempt(w)
  \/ CountAttemptFails(w)
  \/ TryClaimRun(w)
  \/ ClaimRefused(w)
  \/ ClaimFails(w)
  \/ PersistSuccess(w)
  \/ PersistConflicts(w)
  \/ RecordFailure(w)
  \/ RecordFails(w)
  \/ Dispose(w)
  \/ DisposeFails(w)
  \/ Retry(w)
  \/ RetriesExhausted(w)
  \/ MarkPermanentlyFailed(w)
  \/ MarkPermanentlyFailedFails(w)
  \/ DeadLetter(w)
  \/ DeadLetterFails(w)
  \/ Ack(w)

Next ==
  \/ \E c \in Callers : Post(c)
  \/ \E w \in Workers :
       Fetch(w) \/ Work(w) \/ Crash(w) \/ LoseChild(w) \/ VisibilityTimeout(w)

Spec == Init /\ [][Next]_vars

\* Every worker keeps taking messages and working on the one it holds; POSTs,
\* kills and redeliveries are never owed.
FairSpec ==
  /\ Spec
  /\ \A w \in Workers : WF_vars(Fetch(w)) /\ WF_vars(Work(w))

-----------------------------------------------------------------------------
(***************************************************************************)
(* What the lifecycle promises                                             *)
(***************************************************************************)

\* run_claimed_request(): of any number of deliveries of a job, at most one
\* executes the graph, and it does so under a row that says RUNNING - as long
\* as no other delivery's on_failure() has overwritten the row.
OneRunnerPerJob ==
  \A j \in Jobs \ overwritten : \A v, w \in Workers :
    Runs(v, j) /\ Runs(w, j) => v = w

RunnerOwnsRow ==
  \A j \in Jobs \ overwritten : \A w \in Workers : Runs(w, j) => status[j] = "running"

\* _persist_success(): nobody can observe a report without a COMPLETED job, or
\* the reverse - again until on_failure() overwrites a finished job.
ReportMatchesStatus ==
  \A j \in Jobs \ overwritten : report[j] <=> status[j] = "completed"

\* The three hold each other up: a claim is safe because a live run implies
\* RUNNING, and a report because RUNNING implies that there is none yet.
RunSafety == OneRunnerPerJob /\ RunnerOwnsRow /\ ReportMatchesStatus

\* Every message carries the query its row was created with: the 409 on a
\* reused key leaves no way to run another query under a job's id.
MessageCarriesRowQuery ==
  \A t \in Tasks : taskJob[t] # NoJob => taskQuery[t] = query[taskJob[t]]

Enqueued(j) == \E t \in Tasks : taskJob[t] = j

\* No message of t is queued and no worker holds one.
Over(t) ==
  /\ \A r \in 0..MaxRetries : queue[<<t, r>>] = 0
  /\ \A w \in Workers : pc[w] # "idle" => task[w] # t

\* Nothing more will be done about j.
Quiet(j) == \A t \in Tasks : taskJob[t] = j => Over(t)

\* acks_late and autoretry_for: whatever is killed, redelivered or retried, a
\* task is not over while its job is still PENDING.  There are two exceptions,
\* and a job is left PENDING only if every task of it met one: the pool process
\* that held the message was killed, or on_failure() itself failed.
NoSilentLoss ==
  \A t \in Tasks \ lost : taskJob[t] # NoJob /\ Over(t) => status[taskJob[t]] # "pending"

\* The row says RUNNING and no worker is running it; nothing reclaims such a job.
Stranded(j) == status[j] = "running" /\ \A w \in Workers : ~Runs(w, j)

\* A row never says RUNNING without a worker running it, unless a worker was
\* killed, or the transaction recording the outcome failed: those two are the
\* only ways a job is stranded.
RunningHasRunner ==
  crashes = 0 /\ "record" \notin FaultPoints => \A j \in Jobs \ overwritten : ~Stranded(j)

\* Somebody has given j more than one message: a second POST, or the broker,
\* after a kill or a visibility timeout.
Duplicated(j) ==
  \E s, t \in Tasks : taskJob[s] = j /\ taskJob[t] = j /\ (s # t \/ s \in resent)

\* What the promises above lose to on_failure() they lose to a duplicate: a job
\* with one task, never redelivered, is never overwritten.
LapseNeedsDuplicate ==
  "dispose" \notin FaultPoints => \A j \in overwritten : Duplicated(j)

\* poll_until_terminal(), the event stream and both user interfaces take FAILED
\* for the end and stop watching, while try_claim_run() would take the row up
\* again: it does so only for a duplicate, never for the retry of a task that
\* has recorded its failure.
FailedIsFinal ==
  [][\A j \in Jobs : "dispose" \notin FaultPoints /\ status[j] = "failed" =>
       status'[j] = "failed" \/ Duplicated(j)]_vars

\* increment_attempt_count(): a dead-lettered task was physically attempted
\* more than max_retries times, and the row says so.
DeadLetteredWasRetried ==
  "increment" \notin FaultPoints =>
    \A t \in dead : attemptCount[taskJob[t]] > MaxRetries

\* The job's stored report survives: nothing takes a job out of COMPLETED but
\* an on_failure() that overwrites it.
CompletedIsFinal ==
  [][\A j \in Jobs : status[j] = "completed" /\ j \notin overwritten'
                        => status'[j] = "completed"]_vars

\* A job whose message reached the broker comes to rest, with no message left
\* to retry or hand round, and then the row says COMPLETED or FAILED, whatever
\* the claim, the counter or the broker did.  The only other ends are the row of
\* a worker killed inside the graph, and a PENDING row of which every task was
\* lost; a same-key POST starts the latter over.
EventuallyTerminal ==
  \A j \in Jobs :
    Enqueued(j) ~>
      /\ Quiet(j)
      /\ \/ status[j] \in {"completed", "failed"}
         \/ Stranded(j)
         \/ status[j] = "pending" /\ \A t \in Tasks : taskJob[t] = j => t \in lost

\* The exactly-once effect the worker layer is built for, as a specification of
\* its own: the runs of a job are serialised, and only one leaves a report.
Effect == INSTANCE ExactlyOnceEffect WITH
  owners <- [j \in Jobs |-> {w \in Workers : Runs(w, j)}],
  done   <- {j \in Jobs : report[j] /\ status[j] = "completed"},
  lapsed <- overwritten

EffectSpec == Effect!Spec

-----------------------------------------------------------------------------
(***************************************************************************)
(* What the documents say without the reservations above                   *)
(***************************************************************************)

\* docs/ARCHITECTURE.md:122 - an infrastructure failure outside the graph is
\* retried, then the job is `failed`; it is never abandoned half way.
InfrastructureFailureEndsTheJob ==
  \A j \in Jobs : Enqueued(j) /\ Quiet(j) => status[j] \in {"completed", "failed"}
=============================================================================
