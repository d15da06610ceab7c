# TLA+ models of RealEstateApp

RealEstateApp answers a free-text investment query with a report written by six
LLM agents.  A request is a *job*: an API process claims it in Postgres under the
caller's `Idempotency-Key`, Celery carries it to a worker, the worker runs the
agent graph, records every node, stores the report, and publishes progress on
Redis for the live stream.  What is hard in this program is not the agents: it is
that the same job may be posted twice, delivered twice, killed, retried and watched
at once, and that the stored row is the only thing that keeps these apart.

This directory models those parts in TLA+, checks them on small instances with TLC
and proves their safety for every instance with TLAPS.  Source
lines below are relative to the repository root.

## 1. Inventory

| Component | Source | State it keeps | Operations | Status |
|---|---|---|---|---|
| Job claim and enqueue | `api/v1/reports.py`, `db/repositories/investment_request_repository.py` | the `investment_requests` row | `POST /reports`: INSERT or replay, then `delay()` | modelled: `JobLifecycle` |
| Report worker | `worker/tasks.py`, `worker/celery_app.py` | Celery message, retry header, `attempt_count`, dead-letter queue | `generate_report`, `retry`, `on_failure` | modelled: `JobLifecycle` |
| Run recorder | `orchestration/run_recorder.py`, `events/publisher.py` | `agent_runs`, `reports`, `started_nodes`, `completed_nodes` | per-chunk handlers, `_mark_failed`, `_persist_success`, publications | modelled: `RunStream` |
| Live progress endpoint | `api/v1/reports.py` (stream) | one Redis subscription per connection | subscribe, snapshot, live loop, poll, drain, status | modelled: `RunStream` |
| Read-only routes and polling | `api/v1/reports.py`, `run_recorder.py:152-268` | none | reads | partly: what they may observe is what `RunSafety` and `FailedIsFinal` say |
| Circuit breaker | `resilience/`, its three users | breaker state per service, per process | `before_call`, `record_success`, `record_failure` | modelled: `CircuitBreaker`, used by `ResearchRun` |
| Market-data cache, vendor client | `cache/market_data_cache.py`, `services/base_api_client.py` | Redis entry and single-flight lock | cache-aside read, poll, fallback, retry loop | modelled: `MarketDataCache` |
| Rate limiter | `rate_limit/` | token bucket in Redis | Lua refill-and-take, `enforce_rate_limit` | modelled: `TokenBucket` |
| Knowledge-base sync | `worker/tasks.py:242-291`, `scripts/sync_knowledge_base.py` | lock, Postgres chunks, Pinecone vectors | list, read, replace, upload | modelled: `KnowledgeSync` |
| Hybrid retrieval | `retrieval/hybrid_search.py`, `tools/hybrid_retrieval_tools.py`, `tools/vector_tools.py` | none of its own | dense and lexical search, rank fusion; the dense-only tool | modelled: `HybridSearch`; its calls and reports to the breaker: `ResearchRun` |
| Agents and graph | `agents/`, `graph.py` | the LangGraph state, one MCP agent per process | six nodes, three of them ReAct loops over tools | partly: `ResearchRun`; the models' answers are choices |
| Chat UI and API client | `app.py`, `services/report_api_client.py`, `logger/logger.py` | shared token pair; node boxes of a session | login, refresh, submit, follow; open and close boxes, place lines | modelled: `ReportApiClient`, `ChatSession` |
| Command line | `cli.py` | none | claim, `delay()`, poll, with a fresh key | partly: a caller of `JobLifecycle` without conflicts |
| Retrieval evaluation | `retrieval/evaluation.py`, `scripts/evaluate_retrieval.py` | none | three rankings per query, three metrics | partly: `RetrievalEvaluation`; tables and means are not |
| Authentication | `auth/`, `api/v1/auth.py` | users, keys | checks, token issue | not modelled: stateless; its 401s are `ReportApiClient`'s |
| Configuration, migrations, deployment, logging texts, maintenance scripts | `config/`, `alembic/`, `k8s/`, `terraform/`, `logger/`, `scripts/` | constants | - | not modelled: no behaviour of their own |

How they interact.  The API and the workers share the Postgres row and nothing else;
its `UNIQUE(user_id, idempotency_key)` constraint serialises claims and one
conditional UPDATE (`try_claim_run`, investment_request_repository.py:160) serialises
runs.  The broker connects them with at-least-once delivery
(`task_acks_late`).  The recorder and the stream endpoint share the `agent_runs` rows
and one Redis channel per job, which stores nothing.  Every process has one circuit breaker per
vendor, which outlives runs and is shared by all of their nodes and by the knowledge-base sync.
The chat UI is a client of the API like any other; its sessions share one pair of tokens, and
the messages of a session share its node boxes.

What is hard:

- the row is read or written by POSTs, by deliveries of several tasks, by retries of
  each and by `on_failure()`, and only one of these writes is conditional;
- a worker or one of its pool processes can be killed, or a transaction refused, between any two transactions;
- a subscription, two reads, a commit and a publication are four parties' steps with
  no common lock;
- a node that raises cancels its siblings in the middle of their vendor calls, in coroutines
  that vanish without a word and in threads that do not stop.

What makes each component correct:

- *claim and worker*: one run of a job at a time; a report exactly when the row says
  COMPLETED; COMPLETED is final, and FAILED is unless the job was duplicated; a job id is only ever run with the query its row was
  created with; a job comes to rest COMPLETED or FAILED, and is lost only in ways
  that can be named; a parked task has used all of its attempts;
- *recorder and stream*: no silent gap between snapshot and live events; a completed
  job's client has seen every node complete; the audit trail of a completed job is
  whole and of one run; no node is left RUNNING; the stream ends;
- *breaker*: one probe at a time, it opens on a streak of failures and nothing else, late
  results do not restart the clock, the vendor is tried again;
- *run*: no vendor call outlives the node or the run that waits for it; the breaker counts what
  happened; an outage of Pinecone fails no run; every task ends;
- *cache*: one vendor call at a time while the lock lives, an owner's lock is not taken
  within its TTL, an entry is fetched beside a live one only by who missed before, bounded waiting;
- *rate limiter*: no stretch of time is served more than a full bucket and its refill;
  waiting a Retry-After is enough;
- *sync*: a running task owns the lock while its key lives; the table is always one whole
  scan; Pinecone's failures never hold the lexical half back;
- *retrieval*: fusion equals its documented definition, and one half is enough; the metrics agree;
- *client*: stale tokens never make a message fail; it is always answered; a box says what became
  of its own message's node.

The hazards list of `PROJECT.json` gives the line where each of these can go wrong.

## 2. Modules

| Module | What it is |
|---|---|
| `JobLifecycle` | POST, broker, workers and the job row |
| `ExactlyOnceEffect` | what the job lifecycle promises, as a specification; `JobLifecycle` implements it |
| `JobLifecycleProofs` | theorems about `JobLifecycle` |
| `MCJobLifecycle` | its instances for TLC |
| `RunStream` | one run's recorder, its publications, and the connections that watch it |
| `RunStreamProofs` | theorems about `RunStream` |
| `MCRunStream` | its instances for TLC |
| `CircuitBreaker` | one breaker and the calls that go through it |
| `CircuitBreakerProofs` | theorems about it; `ResearchRun` is its instance for TLC |
| `ResearchRun` | a worker process, its graph runs, agents and tools, and the breaker of one vendor |
| `ResearchRunProofs`, `MCResearchRun` | theorems; instances |
| `MarketDataCache` | one cache entry, its lock, and the callers that miss it, in time |
| `MarketDataCacheProofs`, `MCMarketDataCache` | theorems; instances |
| `LeasedLock` | what the two Redis locks promise, as a specification; `MarketDataCache` and `KnowledgeSync` implement it |
| `KnowledgeSync` | the scheduled re-indexing, its lock and the two stores it writes |
| `MCKnowledgeSync` | its instance for TLC |
| `HybridSearch` | the search over both stores, composed with `KnowledgeSync` |
| `RetrievalEvaluation`, `MCHybridSearch` | the scores of its rankings; instances of both |
| `RetrievalProofs` | theorems about the sync, the search and the scores |
| `TokenBucket` | the rate limiter's bucket, in time |
| `FlowingBucket` | the bucket one pictures, as a specification; `TokenBucket` implements it |
| `TokenBucketProofs`, `MCTokenBucket` | theorems; instances |
| `ReportApiClient` | the chat UI's calls over one shared token pair |
| `ChatSession` | composed with what a session draws of the streams |
| `ChatSessionProofs`, `MCChatSession` | theorems about both; instances |

### JobLifecycle

A transaction of the code is one action; what the code does between two transactions is
interleaving.  A worker's `pc` names the place in `generate_report` it has reached:

| `pc` | Code | Left by |
|---|---|---|
| `received` | before `increment_attempt_count` | `CountAttempt`, `CountAttemptFails` |
| `counted` | before `try_claim_run` | `TryClaimRun`, `ClaimRefused`, `ClaimFails` |
| `running` | inside the graph | `PersistSuccess`, `PersistConflicts`, `RecordFailure`, `RecordFails` |
| `disposing` | the `finally` that closes engine and Redis | `Dispose`, `DisposeFails` |
| `escaped` | an exception left the body | `Retry`, `RetriesExhausted` |
| `exhausted`, `deadletter` | `on_failure()` | `MarkPermanentlyFailed`, `DeadLetter` and their failures |
| `returning` | over, message not acknowledged | `Ack` |

A worker here is one process of Celery's prefork pool, the default, which the deployed worker runs
(docker-compose.yml:204).  Any of the steps above may be interrupted by one of two kills, or be joined by
`VisibilityTimeout` (a second copy is delivered).  `Crash` is the kill of the whole worker, parent process and all: nobody
acknowledges, and the message goes back to the queue.  `LoseChild` is the kill of one pool process by, say,
the OOM killer: the parent sees it die and, because `task_reject_on_worker_lost` is not set (celery_app.py:12-83;
Celery's default is false), acknowledges its message, `task_acks_late` or not, without calling `on_failure()`.  The two
differ in nothing but what becomes of the message.  `Jobs` are
(user, key) pairs, `query` stands for the payload hash (taken to be injective), and
`report` for the row of `reports` that `UNIQUE(request_id)` allows once.  The graph is
one step with two outcomes here; `RunStream` opens it.

`overwritten` is a history variable: the jobs for which `on_failure()` has written FAILED
over a COMPLETED row, or over a row another worker was running.  The UPDATE in
`on_failure()` (worker/tasks.py:64) has no condition on the status, so no invariant about
runs holds of these jobs.  The invariants are stated of the others, and `LapseNeedsDuplicate` says
what it takes to become one: `Duplicated(j)`, a second task of that job, or one whose message was put back.  Two more
histories are kept by task: `resent`, whose message was put back on the queue by a kill or a timeout, and `lost`, of which
a message died with its pool process or with `on_failure()`'s own UPDATE.  `RunSafety` is
the conjunction of the three properties of a run (`OneRunnerPerJob`, `RunnerOwnsRow`,
`ReportMatchesStatus`); `FailedIsFinal` is what a poller relies on when it stops at FAILED;
`NoSilentLoss` says that no task is over while its job is PENDING, except those in `lost`;
`EventuallyTerminal` says that the whole comes to rest, the broker empty, with every job's row
terminal, stranded by a kill, or PENDING with all of its tasks in `lost`.  One task that was not lost is enough, so
the same-key POST that ARCHITECTURE.md:36 relies on does start such a job over.

External, modelled from how the code configures it: Celery and the broker (late
acknowledgement, prefetch 1, the retry header, `on_failure` called once after the last
retry, its own exception logged and the message acknowledged, a killed worker's message
returned to the queue, a killed pool process's message acknowledged by its parent).

### ExactlyOnceEffect

"Exactly-once effect on at-least-once delivery" (docs/ARCHITECTURE.md) seen from outside:
a job has at most one owner; an owner finishes or abandons; a finished job has no further
owner.  `JobLifecycle` implements it under

    owners[j] = workers inside the graph on j
    done      = jobs with a report and status COMPLETED
    lapsed    = overwritten

Everything else the lifecycle does (enqueueing, counting, retrying, acknowledging,
redelivering) maps to a stutter.

### RunStream

One job.  The recorder takes the graph's chunks in the order LangGraph emits them: all
"task" chunks of a superstep, then its nodes' updates in any order, the "values" chunk
(city/budget back-fill) before the next superstep.  `Step` assigns supersteps, so the
graph of graph.py is an instance.  Each chunk is a commit (`NodeStarts`, `NodeCompletes`)
followed by a publication (`Publish`, or `PublishDropped` when Redis fails); `owed` is the
node between the two.  `RunFails` is `_mark_failed()`: one transaction, whose FAILED events
(`obituaries`) are published afterwards and may still be on their way when another delivery
claims the job again.  A connection subscribes, reads the job's status, reads the nodes'
rows (two statements), and then forwards, polls, drains and closes.

`Claim` starts a run only when no other is in progress: that is `OneRunnerPerJob` of
`JobLifecycle`, used here as an assumption, so jobs in `overwritten` are outside this module.
Outputs, errors, timestamps and the sequence number are left out: nothing the stream does
depends on them.  Redis delivers to subscribers at the moment of publication; its latency
is covered by the time the connection takes to read.

`untold`, `muted` and `cut` are history variables.  `untold` is the set of nodes whose latest row
the channel never carried (Redis dropped the event, or the worker was killed before it).
`muted` is set when a run loses an event or ends without one.  `cut` holds the runs that a kill or the
failure of the recording transaction ended without a record.  They appear only in
properties, where they say exactly which promise does not cover what.

### CircuitBreaker

`before_call`, `record_success` and `record_failure` hold the breaker's own lock, so each is
one step (`Admit` or `AdmitProbe`, `Succeed`, `Fail`); a call is in flight between two of
them for as long as it likes.  A refused call changes nothing and has no action.  The clock
is one flag, `cooled`: the reset timeout has passed since the last trip.  The promotion
from OPEN to HALF_OPEN happens in `AdmitProbe`, because `_state_locked()` does it when
somebody asks.  `record_failure()` does not ask: it reads `_state` as last written, and so
does `RecordFailure`.  `Cancel` is a call that ends without either record: `CancelledError`
passes both except clauses of `_send_request()`, and the record after the `await` in
`search_zoning_laws_hybrid()`.

The module has no run of its own: `ResearchRun` instantiates it for the breaker of a process and checks and
proves that every step of the process is one of these steps or leaves the breaker alone.

`probes`, `streak` and `probeLost` are history variables: who was admitted in this half-open
period, how many failures came since the last success, and whether a probe was
cancelled.

### ResearchRun

One worker process, which works off one task after another, and its calls to one vendor, `path`: RapidAPI (called by
the market node), or Pinecone through the dense-only or the hybrid tool (called by the zoning agent).  A run goes through
the stages of graph.py; in `research` the three researchers run side by side, and `at` says how far each is.  An agent is
a loop: it answers, or asks for any number of tools at once (`Act`, whose calls are `asked` until `before_call()` and
`calling` after it), up to `RecursionLimit` supersteps.  A node whose output is mocked answers without its tools
(`Mock`).  `Raise` fails the run: the siblings become `cancelled` wherever they are.

What a cancellation does to a call depends on how it was made.  A coroutine (`market`, `hybrid`) is abandoned and reports
nothing (`Abandon`, which is `Cancel` of `CircuitBreaker`).  A thread (`dense`) goes on, and reports; the failed run's
event loop waits for it in `ending` before it closes.  The process may be handed the knowledge-base sync between runs, which
goes through Pinecone's breaker as well.

`lost`, a history variable, counts what the vendor really did, against which `RecordedIsReal` sets what the breaker was
told.  The LLMs, the MCP tools and LangGraph's runner are external.

### MarketDataCache

Everything this component promises is about how long something lasts, so the model counts
time: an entry, a lock, a sleep and an attempt each have a timer, `Tick` counts them all down, and no tick
passes while somebody has something due.  Redis commands take no time but interleave: between
the miss, the SET NX, the SET of the entry and the release script any other caller may step.
The vendor call is the retry loop of `_send_request()` (an attempt may end at any
moment up to its timeout; the next waits a jitter of its choosing; attempts and budget are asked
between attempts).  A refusal by the breaker, a 4xx, and a cancellation are `FetchRaises`.
A kill and a refused Redis command leave the same behind, and are both `Crash`.

A caller that holds a token is in `locked` until its finally has run; `lock` is what the key
holds.  The two differ exactly when a lease has been outlived.  The entry is read before the SET NX and not
again after it, so a vendor call beside a live entry does happen; `RefetchMissedBeforeStore` says that it
is only ever made by a caller that had missed before the entry was stored.

### LeasedLock

The lock of the cache and the lock of the sync are the same three commands: SET NX EX, a script
that deletes the key if it holds the caller's token, and the TTL.  `LeasedLock` is what that gives: `Enter` when the key is
free, `Leave` with one's own key and nobody else's, `Die` without it, and `Lapse` under whoever is inside, which is then `overdue`.
Of any two inside one is overdue: `RunningTaskHoldsLock` says it of the sync, and for the cache it is what `overdue` means
(`LeaseCoversCall` adds when it cannot be).

    MarketDataCache:  inside = locked                     overdue = those of locked whose token the key does not hold
    KnowledgeSync:    inside = tasks that are running     overdue = lapsed

Both are proved to implement it; waiting, fetching, replacing and uploading map to stutters, and so do
a caller that fetches without the lock and a run by hand.

### KnowledgeSync

A run is a `pc` through `sync_azure_to_pinecone()`: `listing`, `reading`, `deleting`, `inserting`,
`uploading`, `releasing`.  `Scheduled` runs take the Redis lock, `ByHand` runs (the `__main__` of the
script) do not.  A document stands for all of its chunks.  A row of the table is a pair of its writer
and its document, because what matters of two overlapping transactions is whose rows a DELETE can
see: `Delete` dooms the rows committed when it starts, `Commit` removes them and adds its own, and
nothing removes rows committed in between (Postgres's READ COMMITTED, the default that
`session_scope()` leaves in force).  Pinecone only ever gains copies.

`lapsed`, `contended` and `last` are history variables: runs whose key has expired under them,
transactions that overlapped another, and the last committed replacement.

### HybridSearch

Extends `KnowledgeSync` with one search at a time.  The two halves answer on their own, each from its
store as it is at that moment, in any order the query may put the documents; either may be skipped
or fail.  The fusion is written as the code computes it: one pass over both lists that adds
a term per entry, then the listing of the entries by score, ties by first sight (`Precedes`): the order is
strict and total, so there is exactly one such listing, and it is what a stable sort returns.  Scores are integers in units of 1/`Unit`, a common multiple
of all denominators.  Copies of one document come next to each other: they have one text and thus
one score, and documents are taken to have different ones.

### RetrievalEvaluation

What `scripts/evaluate_retrieval.py` computes of a query: recall@k, reciprocal rank and nDCG@k of the dense, the
lexical and the fused ranking.  Quotients are compared by their numerators (the denominators are
fixed by the set of relevant chunks), and the discounts 1/log2(rank + 1) are any strictly decreasing
positive integers.  It extends
`HybridSearch`, so that the rankings are those the search really returns, and `relevant` is any non-empty set of chunks.

### TokenBucket

The Lua script is one step of Redis.  Time is in ticks of Redis's `TIME` and tokens in what one tick
refills, so that all of its arithmetic is exact but one conversion: `tostring` keeps 14 digits, which for today's
dates rounds `last_refill` to 0.1 ms.  `Stored` is that rounding; it may put `last_refill` ahead of the clock,
which is why the script's `elapsed > 0` matters.  The rounding of `tokens` (14 digits of a number below
100) is left out.  The clock does not run backwards.  `since`, `spent`, `slack`,
`promise` and `blur` are an observer's: what was served since a moment of its choosing, and the
oldest Retry-After nobody has been served after.  Buckets of different identities share nothing.

`FlowingBucket` is the bucket one pictures: a unit flows in with every tick, a request takes a token or nothing.  `TokenBucket` implements
it with `level <- Level` (what the script would find now) and `lag <-` how far the stored time is ahead of the clock.
That the level is worked out lazily, that refusals write the hash too, and that a key may expire, is thereby invisible but for
the rounding.

### ReportApiClient

A message's `call` is the request it is making and `pc` what it waits for.  All messages share `access` and
`refresh`.  `sent` is the token a request left with: one that was shared when it was sent, and may be
replaced or expire meanwhile; its own, just obtained; or an expired one.  The server is external but for the
code that decides: `get_current_user`, `login`, `refresh`.  `OthersRenew` is any message of another session, which
replaces the tokens.

### ChatSession

The messages of one session, one after the other (`Handle` is a step of `ReportApiClient`'s for the message whose turn it
is), and what their streams draw while `pc` is `events`.  `Draw` is `_render_node_state()`: header, error line, footer.
`Log` is `log_agent_content()`.  The session's two dictionaries are `active` and `finished`, keyed by node and not by message,
each holding whose box it is; `shown` and `lines` are what the user sees.  An event may come in any order and more than
once, because a state is read from the snapshot and from the channel, and a retry tells of another run.
`left`, a history variable, holds the boxes a message has left open when it ended: by a timeout, a broken stream, or a status
event that overtook the node's.

## 3. Runs

Passing runs:

| Run | Instance | Shows |
|---|---|---|
| `job_safety` | 1 job, 2 queries, 2 POSTs, 2 task ids, 2 workers, 1 retry, every fault, 1 kill of either kind, 1 redelivery | `RunSafety`; `MessageCarriesRowQuery`; `EffectSpec`, the refinement of `ExactlyOnceEffect`, by which a finished job stays finished |
| `job_live` | 1 query, 1 POST at a time, 2 tasks, 1 retry, 1 kill of either kind, 1 redelivery, faults in enqueue, claim, `on_failure()` and dead-letter, under fairness | `RunningHasRunner`; `NoSilentLoss`; `LapseNeedsDuplicate`; `DeadLetteredWasRetried`; `FailedIsFinal`; `EventuallyTerminal` |
| `stream` | intake and a researcher, 1 connection, 2 runs of the job on the same rows, every fault, 1 log line, under fairness | `NoSilentGap`; `CompletedStreamIsWhole`; `AuditTrailIsWhole`; `NoNodeLeftRunning`; `StreamEnds` |
| `research` | 3 calls at once, threshold 3, agents of 4 supersteps, one node that may be mocked, each vendor and tool, under fairness | `BreakerSpec`, the refinement of `CircuitBreaker`, and its `BreakerSafety` (`OneProbePerPeriod`, `OpenAfterAStreak`) and `LateFailuresKeepTheClock`; `NoStrayCalls`; `ProbeIsLostByCancellation`; `RecordedIsReal`; `VendorIsRetried`; `RunEnds` |
| `cache_single_flight` | 2 callers, the proportions of the defaults in ticks of 5 s, kills, refused Redis commands, under fairness | `LeaseCoversCall`; `SingleFlight`; `RefetchMissedBeforeStore`; `ReturnsInTime`; `LeaseSpec`, the refinement of `LeasedLock`; `EveryMissReturns` |
| `knowledge_sync` | 2 workers, 1 run by hand, 1 document that comes and goes, 1 crash or failure, Pinecone refusing at will, under fairness | `TableIsTheLastScan`; `LeaseSpec`, the refinement of `LeasedLock`; `LexicalCatchesUp` |
| `hybrid_search` | 1 worker that syncs, 3 documents, up to 2 copies, 3 candidates, 2 results, any order in each half, metrics at k = 2 | `FusionAsDocumented`, also with one half only; `MetricsAgree` |
| `bucket_serves` | 2 tokens of 4 ticks, seconds of 3, 6 calls, 14 ticks, a key of 9 | `ServesNoMoreThanTheRate`; `RetryAfterSuffices`; `FlowSpec`, the refinement of `FlowingBucket` |
| `chat_session` | 2 messages of a session, 1 node, 2 expirations of the access token, any refusal, timeout or lost answer, events in any order, under fairness | `UnauthorizedMeansNoUser`; `VerdictIsItsNodes`; `LinesGoToOwnBox`; `EveryMessageIsAnswered` |

Type invariants are proved (section 4) and not listed here.

Runs that show a disagreement between the code and what the repository says of it:

| Run | Property | Where |
|---|---|---|
| `job_infra` | `InfrastructureFailureEndsTheJob` (ARCHITECTURE.md:122) | run_recorder.py:317: the recording transaction fails, the retry is refused by its own RUNNING row |
| `research_wedge` | `ProbesReportBack` (circuit_breaker.py:82-84) | base_api_client.py:115: a node raises while its sibling's call is the half-open breaker's probe; the probe is cancelled, and the breaker refuses every call from then on |
| `stream_ends` | `EveryStreamEnds` (reports.py:411-415) | reports.py:323: a client that connects after the last event and before the COMPLETED commit is never woken |

Other disagreements were met while modelling.  The models contain the behaviour, and the property
named shows it by the reservation it has to make; they have no run of their own:

- *A report without a completed job.*  `on_failure()`'s UPDATE (worker/tasks.py:64) has no condition on the
  status: a duplicate delivery's last retry writes FAILED over COMPLETED, against
  ARCHITECTURE.md:110 ("No caller can ever observe a report without a `completed` job").  It can also hit a row that
  is RUNNING, after which a further delivery runs the graph beside the first (README.md:97, "only once").
  `RunSafety` excepts `overwritten`.
- *A task that a kill loses.*  celery_app.py:26-29 ("a worker that dies mid-task leaves the task unacked and Redis
  redelivers it to another worker instead of losing it", also ENGINEERING_DECISIONS.md:76) holds of a whole worker.  It
  runs the prefork pool (docker-compose.yml:204) without `task_reject_on_worker_lost`: when one pool process is killed, its
  parent acknowledges the message, `on_failure()` is not called, and a job not yet claimed stays PENDING with nothing to run it
  until its key is posted again.  The gap of ARCHITECTURE.md:157 names `running` jobs only.  `NoSilentLoss` and
  `EventuallyTerminal` except the tasks in `lost` (`LoseChild`).
- *A failure not shown live.*  `_mark_failed()` commits FAILED before it publishes the nodes' FAILED events
  (run_recorder.py:448).  A stream that is polling just then closes without them, against ARCHITECTURE.md:122 ("visible live
  over SSE").  `CompletedStreamIsWhole` speaks of completed jobs only.
- *A lease shorter than a call.*  The retry budget is asked between attempts (base_api_client.py:94-108), so that a
  call may last 35 s with a lock of 30 s, against config.py:297-300 ("can never expire out from under a caller").
  `SingleFlight` excepts callers that outlived their lease.
- *Re-enqueued replays.*  A replay of an unfinished job enqueues a second task, although api/v1/reports.py:96-97 says
  "No new job was created or enqueued" (ARCHITECTURE.md:108 describes it as deliberate).
- *Copies in Pinecone.*  Every sync adds all chunks under new ids.  hybrid_search.py:11-12 defines one term per list that
  contains an item; with copies the code adds one per copy, which inflates a chunk's score, and the copies take the places of
  other candidates.  `FusionAsDocumented` excepts halves with repeated chunks.
- *Overlapping replacements.*  A run by hand, or one that outlived the lock, can commit between another's DELETE and
  COMMIT, and the table holds both scans until the next sync (document_chunk_repository.py:19-20, "this is everything
  currently in Azure").  `TableIsTheLastScan` excepts them through `last.alone`.
- *A second 401 on the stream.*  It leaves `stream_report()` as `_StreamUnauthorized`, which
  report_api_client.py:17 says "never escapes"; the user is told that the API could not be reached.
- *A failure recorded as a success.*  An exception without text becomes a falsy `dense_error`
  (hybrid_search.py:121), and hybrid_retrieval_tools.py:55 reports the call to the breaker as a success.  `RecordedIsReal` promises
  equality only without the hybrid tool.
- *The source of a dense hit.*  Chunks are uploaded with `source_origin` (sync_knowledge_base.py:151) and read with
  `source` (hybrid_search.py:60), so a dense-only hit is shown as "Unknown Archive".
- *A box that stays open.*  A message that times out leaves its boxes open, and they are kept by node only: the next message's
  `running` opens none of its own and its `completed` closes the old one, against app.py:144-146 ("opens a Chainlit
  step the moment a node starts").  `VerdictIsItsNodes` excepts `left`.
- *A line under yesterday's box.*  A line that comes before its node's `running` is put under the box an earlier message has
  finished; logger.py:68-69 takes every line without an open box for a late one.  `LinesGoToOwnBox` starts when the
  message has a box.
- *nDCG above 1.*  evaluation.py:40 normalises to [0, 1]; a ranking in which Pinecone returns copies of a relevant
  chunk exceeds it.  `MetricsAgree` excepts rankings with repeats.

The jobs a hard kill leaves RUNNING are a gap ARCHITECTURE.md:157 documents; the models
contain them (`Stranded`), and no finding is made of them.

### Bounds, and why they are enough

- *One job.*  Actions of different jobs touch different components of every
  variable except the worker a message occupies; two jobs interfere only by making
  workers busy.  The theorems hold for any set of jobs.
- *Two tasks, two workers.*  Every interference found or feared is between two deliveries.
  Redelivery and kill add further copies of the same message.
- *One retry*, `MaxCrashes` and `MaxRedeliveries` 0 or 1: a kill of either kind at every place, and
  a kill followed by a retry.  Proved for all values.
- *Graph.*  `stream` has a sequential edge and no fan-out: what two runs on the same rows with every fault leave room for.
  The safety of larger graphs is proved, for any number of nodes, supersteps and runs.  `stream_ends` uses the
  six nodes of graph.py.
- *One connection.*  Connections share nothing but the channel, which delivers to
  each independently.
- `PollAttempts` 2 (10 in the code, config.py:269): its value matters only for the budget's end,
  which it contains.
- *Research.*  Three calls and a threshold of 3 (5 in the code): as many as
  `LateFailuresKeepTheClock` allows, so that all of a streak can be in flight when it trips.  Four supersteps are two rounds
  of tools: one that asks after the first has failed.  One vendor at a time: the breakers of two share nothing.
- *Cache.*  A tick is 5 s: attempts of 3 ticks (15 s), a budget of 4 (20 s), a lock of 6 (30 s), backoff and
  poll interval rounded up to 1, two polls.  The entry lives 2 ticks, not 180: long enough to
  be seen by a waiting caller, short enough to expire.  Two callers: a third would be one more waiter,
  and the theorems have any number.
- *Sync.*  Two workers and an operator are all the pairs that can meet: two that respect the lock, and one that does
  not.  One document that is removed and comes back (`MaxChanges` 2) tells an old scan from a new one.
  `knowledge_sync` counts copies up to 1; `hybrid_search`, where they matter, up to 2, with one change so that the halves can answer
  from different scans.  Three documents are the fewest for which the results leave a candidate out.
- *Bucket.*  A second is no multiple of a token's refill, so that Retry-After has something to round; the clock
  outlives the key by more than a second; six calls empty the bucket three times.
- *Chat.*  Interference is between a message and what other sessions do to the token pair, and between it and the one before
  it through a node's box; boxes of different nodes share nothing; an access token can expire for each of a call's two requests.
- `MaxLogs` 1: one log line between two progress events.

- `FailureInjectionCount` is 0, as deployed: an injected failure takes the way of a refused `increment_attempt_count`, which `job_safety`
  has at any attempt.  `job_live` allows one retry, and has faults in enqueue, claim, `on_failure()` and dead-letter call.

Symmetry (of tasks, workers, queries) is used by `job_safety` only, which has no liveness.  Deadlock is not an error: when every budget is spent and every job
over, the system stops.

### Fairness

`JobLifecycle!FairSpec`: weak fairness of each worker's `Fetch` and `Work`.  What a worker
waits for inside `generate_report` comes to an end: vendor calls have a 15 s timeout per
attempt and a bounded retry (services/base_api_client.py), the LLM, Postgres and Redis
clients their libraries' timeouts.  Celery itself sets no time limit
(worker/celery_app.py:71), so this is an assumption about those clients.  POSTs, kills and
redeliveries are never owed.

`RunStream!FairSpec`: weak fairness of `Claim`, of the recorder and of each connection.
`CommitWithinPollBudget` is the assumption config/config.py:255-268 states for
`SSE_TERMINAL_POLL_ATTEMPTS`: the last commit of a run does not outlast a poll.  Without it
`StreamEnds` is false (a poll can give up just before the commit).  The theorems do not need it.

`ResearchRun!FairSpec`: weak fairness of the reset timeout, of the process (it takes the next task, and joins what has
ended), of each node's own steps (LLM clients have timeouts) and of each call's outcome (every attempt has one); strong fairness
of admission, because a call may be cancelled between its decision and `before_call()` run after run, which the event loop,
that schedules ready tasks in order, does not do for ever.

`MarketDataCache!FairSpec`: strong fairness of `Tick`, because a caller that misses, is killed and misses
again disables it over and over within a tick, which no real clock minds; weak fairness of each caller's
own steps (Redis answers, sleeps end).

`KnowledgeSync!SyncFairness`: weak fairness of the key's expiry, of the scheduled task (Beat delivers it every few
hours, to any worker) and of each run's next step, with `UploadFails` as good as `Upload`.

`ChatSession!FairSpec`: weak fairness of each message's requests, which end by an answer or by httpx's 30 s, except that
a stream may stay open for ever; and of `wait_for`'s timeout.

## 4. Theorems

All proofs are checked by TLAPS from the named assumption on the constants of each
module (sizes are naturals, the null values are outside their sets; for the graph:
the intake node is alone in the first superstep; for retrieval: there are finitely many
documents and processes, and discounts decrease).  Nothing else is assumed: sets of jobs,
tasks, workers, nodes and connections are arbitrary, and so are the budgets.

`JobLifecycleProofs`:

| Theorem | Property | Inductive invariant |
|---|---|---|
| `TypeCorrect` | `TypeOK` | itself; it says that whoever holds a message holds one of a real job |
| `RunSafetyHolds` | `RunSafety` | itself; its three parts need one another: that a second claim is refused needs that the first runner's row says RUNNING, and that no report can be committed twice needs that a report excludes RUNNING |
| `MessageCarriesRowQueryHolds` | `MessageCarriesRowQuery` | `QueryInv`: also every POST between its claim and its enqueue holds the row's query |
| `NoSilentLossHolds` | `NoSilentLoss` | `LossInv`: while its job is PENDING, a task not in `lost` has a message queued, or with a worker at a place where it will still do something about it (`Alive`) |
| `RunningHasRunnerHolds` | `RunningHasRunner` | itself, with the run-safety invariant |
| `DeadLetteredWasRetriedHolds` | `DeadLetteredWasRetried` | `RetryInv`: a message with retry header r belongs to a job counted at least r times, r+1 once past the counter |
| `CompletedIsFinalHolds` | `CompletedIsFinal` | the run-safety invariant: only `MarkPermanentlyFailed` writes a COMPLETED row |
| `LapseNeedsDuplicateHolds` | `LapseNeedsDuplicate` | `SoloInv`: a job that nobody has duplicated has at most one copy of one message, in the queue or with one worker, and what its row says fits the place where that worker is; a kill or a redelivery concerns one job and leaves the others so |
| `FailedIsFinalHolds` | `FailedIsFinal` | `SoloInv`: when the row says FAILED its only worker is past the claim for good |
| `ImplementsExactlyOnceEffect` | `EffectSpec` | step simulation: `TryClaimRun` is `Start`, `PersistSuccess` is `Finish`, an escaped or failed run is `Abandon`, any step on an overwritten job is `Lapse`, everything else stutters |

`RunStreamProofs`:

| Theorem | Property | Inductive invariant |
|---|---|---|
| `TypeCorrect` | `TypeOK` | itself |
| `AuditTrailIsWholeHolds` | `AuditTrailIsWhole` | `RunInv`: a run in progress keeps the row RUNNING, and the rows of its completed nodes are its own |
| `NoNodeLeftRunningHolds` | `NoNodeLeftRunning` | `RunningInv`: a RUNNING row is that of a started, unfinished node of the run in progress, or of a run in `cut` |
| `NoSilentGapHolds` | `NoSilentGap` | `NoGap(c)`: the property without its guard on the subscription, because an unsubscribed connection buffers nothing |
| `CompletedStreamIsWholeHolds` | `CompletedStreamIsWhole` | `Whole(c)`, with `NoGap` and `RunInv`: COMPLETED is never left, and the late FAILED events of earlier runs only add to what the channel is behind on |

`CircuitBreakerProofs` (from `ConstantsAssumption`, a hypothesis of each theorem so that an instance can discharge it):

| Theorem | Property | Inductive invariant |
|---|---|---|
| `TypeCorrect` | `TypeOK` | itself |
| `OneProbe` | `OneProbePerPeriod` | itself, with types: `_half_open_probe_claimed` stays set until a result is recorded |
| `OpensOnAStreak` | `OpenAfterAStreak` | itself: while closed the count is the streak |
| `LateFailures` | `LateFailuresKeepTheClock` | itself, with lemmas on cardinalities: a failure while open adds one to the count and takes one from the calls in flight, and nobody is admitted |

`ResearchRunProofs` (from `RunAssumption`):

| Theorem | Property | Argument |
|---|---|---|
| `ImplementsCircuitBreaker` | `BreakerSpec` | step simulation: admissions, records and abandoned calls are the breaker's steps, everything else leaves it alone |
| `OneProbe`, `OpensOnAStreak`, `BreakerSafetyHolds`, `LateFailures` | `BreakerSafety`, which is the first two, and `LateFailuresKeepTheClock` | from the refinement and the theorems of `CircuitBreakerProofs` |
| `TypeCorrect` | `TypeOK` | itself; an agent's rounds stay within its step limit |
| `NoStrayCallsHolds` | `NoStrayCalls` | `CallsHaveOwners`: nodes leave `acting`, and runs `ending`, only when nobody is on the line |
| `ProbeIsLostByCancellationHolds` | `ProbeIsLostByCancellation` | `ProbeInv`, with `OneProbePerPeriod`: the one probe of the period is in flight or lost, and no thread loses one |
| `RecordedIsRealHolds` | `RecordedIsReal` | itself: each record moves both counts, a failure without a text only one |
| `OnlyTheMarketVendorFails` | `OnlyTheMarketVendorFailsARun` | itself |

`MarketDataCacheProofs`:

| Theorem | Property | Inductive invariant |
|---|---|---|
| `TypeCorrect` | `TypeOK` | itself |
| `LeaseCoversCallHolds` | `LeaseCoversCall` | `Lease(c)`: what is left of the lock plus the age of the call is the TTL, and others touch the key only when it is free or theirs |
| `ReturnsInTimeHolds` | `ReturnsInTime` | `Clock(c)`: the age of a caller at each place, from the polls it has slept and the budget its retryer asks |
| `SingleFlightHolds` | `SingleFlight` | both of the above |
| `RefetchMissedBeforeStoreHolds` | `RefetchMissedBeforeStore` | itself, with types: a caller that asks while the entry is up is answered |
| `ImplementsLease` | `LeaseSpec` | step simulation from `Finally(c)`: only who holds a token reaches the release script, and nobody before the SET NX holds one |

`RetrievalProofs` (from `SyncAssumption`, `SearchAssumption` and `EvaluationAssumption`):

| Theorem | Property | Inductive invariant |
|---|---|---|
| `TypeCorrect` | `SyncTypeOK` | itself |
| `LockHolds` | `RunningTaskHoldsLock` | itself, with types: only an expiry takes the lock from its owner, and it leaves the owner in `lapsed` |
| `TableHolds` | `TableIsTheLastScan` | `TableInv`: of two open transactions both are contended, and one that is not has deleted the whole table |
| `ImplementsLease` | `LeaseSpec` | step simulation, from the types alone: a run by hand cannot hold the key |
| `FusionIsAsDocumented` | `FusionAsDocumented` | `SyncTypeOK` and `HalvesTyped`: each half has answered with a list of documents |
| `FusedIsSorted` | a step of the last | none: the entries of any two lists have exactly one listing in the order of the code, and `Fused` is it |
| `AddTermsAdds` | a step of the last | none: one pass over any list adds to each document the terms of its places in the list, and nothing to any other |
| `MetricsAlwaysAgree` | `MetricsAgree` | as for the fusion; then prefix by prefix, over the places of any ranking |

The last four are about data, not about steps: lists of any length, over any documents.  They need induction, and the
library's induction rules cannot be instantiated here; what does the work is `LeastNat`, that a non-empty set of
naturals has a least element, and `Induction`, its consequence for sets of indices.  That the folds of the
community modules are what their recursion says (`FoldExists` and what follows it) is proved the same way, by
building the function they choose.

For the metrics, the gain of a ranking's first k places is compared with the ideal gain of as many hits: it
never exceeds it, because the discounts decrease, and equals it only if the hits are packed at the top.

`TokenBucketProofs` (from `BucketAssumption`: one request fits in the bucket, and a key outlives a full refill):

| Theorem | Property | Inductive invariant |
|---|---|---|
| `TypeCorrect` | `TypeOK` | itself |
| `RateHolds` | `ServesNoMoreThanTheRate` | `Books`: what was spent and what could be spent now come from a full bucket and the time since, up to the rounding; and `KeyOutlivesRefill`, by which an expired key is one whose bucket would be full |
| `RetryAfterHolds` | `RetryAfterSuffices` | `PromiseKept`: at the promised time the bucket will hold a token, up to the rounding, whatever was refused meanwhile |
| `ImplementsFlowingBucket` | `FlowSpec` | step simulation from `KeyOutlivesRefill`: a call is `Serve` or `Refuse` with the rounding it does, a tick is `Flow` also when the key expires, and the observer is invisible |

`ChatSessionProofs` (from `SessionAssumption`: messages are numbered from 1):

| Theorem | Property | Inductive invariant |
|---|---|---|
| `UnauthorizedMeansNoUserHolds` | `UnauthorizedMeansNoUser` | `TokenInv`: the second try of a call carries a token fetched for it, whatever other messages did to the shared pair |
| `VerdictIsItsNodesHolds` | `VerdictIsItsNodes` | `InTurn`, `OpenBoxes`: a box open for a node is the current message's, or one that an earlier message left open |
| `LinesGoToOwnBoxHolds` | `LinesGoToOwnBox` | `OwnBox`: while a message with a box for a node is handled, its box is the open one or the last closed |

Model-checked only: the liveness properties (`EventuallyTerminal`, `StreamEnds`, `VendorIsRetried`, `RunEnds`,
`EveryMissReturns`, `LexicalCatchesUp`, `EveryMessageIsAnswered`), which need fairness and are
out of the prover's reach.
Every invariant, action property and refinement that a passing run checks is proved.

Proved and not listed in a run: `CompletedIsFinal`, which follows from `EffectSpec`, and `RunningTaskHoldsLock`, which follows from
`LeaseSpec`; and `OnlyTheMarketVendorFailsARun`.

## 5. Not modelled, and why

- Contents: prompts, LLM answers, reports, node outputs, error texts, timestamps.
- The read-only routes and `poll_until_terminal` as actions: they write nothing, and each read sees one committed state.
- Replay of the dead-letter queue by hand: nothing in the code does it.
- A commit whose acknowledgement is lost (committed, but the caller sees an error).
  The models' failures are failures without effect, except for uploads to Pinecone, which may have any part of theirs,
  and for the chat client's requests, which may have been executed.
- The X-RateLimit headers (on a 429 `X-RateLimit-Reset` carries the retry time, not the time to full that
  dependency.py:57-60 defines), and a charge whose reply is lost.
- The user's Stop button in the chat, which cancels the handler of a message; and the awaits within the drawing of one
  event, which is one step.
- The parsing of event streams, the text of answers, the titles and texts of boxes.
- The `sequence` number of an event (events/schemas.py:25), which restarts with every run: nothing in the
  repository reads it.
- Agents without their web tools: a failed MCP handshake returns no tools instead of raising
  (tools/tools.py:71), and the agent compiled without them is kept for the life of the process.  Which tools an agent has
  changes what it can ask for; `ResearchRun` lets it ask for any or none.
- Process start, configuration, authentication, migrations, deployment: they are constants of, or checks before, what is
  modelled.  Two remarks from reading them: an invalid API key is answered 401 by `auth/api_keys.py`, whose docstring has it fall
  through to the token check; and vector_store.py:6-10 speaks of one breaker shared by the search tool and
  the sync, which holds within one process.

## 6. Plan

What is left, in order of importance:

1. `ResearchRun` composed with `MarketDataCache`: which runs of one process share an entry.
2. `ChatSession` composed with `RunStream`, in place of events in any order.
