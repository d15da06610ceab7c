------------------------------ MODULE RunStream ------------------------------
(***************************************************************************)
(* One job watched live: run_recorder records each node of the graph in    *)
(* agent_runs and publishes it on the job's Redis channel, and the         *)
(* endpoint GET /api/v1/reports/{id}/stream forwards that channel to a     *)
(* client after a snapshot read from Postgres.                             *)
(*                                                                         *)
(* A commit and the publication that follows it are two steps; so are the  *)
(* two reads of a snapshot.  Redis pub/sub is external: it delivers to the *)
(* connections subscribed at that instant, in order, and stores nothing.   *)
(* How the job is claimed among several deliveries is JobLifecycle's       *)
(* subject; here runs of the job simply follow one another.                *)
(***************************************************************************)
EXTENDS Naturals, FiniteSets, Sequences

CONSTANTS
  Nodes,       \* graph.NODE_REGISTRY
  Step,        \* the LangGraph superstep that dispatches each node
  Intake,      \* ingest_input_agent, whose output carries city and budget
  Clients,     \* connections to the stream endpoint
  NoNode,
  PollAttempts,           \* config.SSE_TERMINAL_POLL_ATTEMPTS
  CommitWithinPollBudget, \* the last commit of a run never outlasts a poll
  FaultPoints,            \* the calls that may fail
  MaxRuns,                \* bound: times the job is claimed
  MaxLogs                 \* bound: log lines the agents publish

Faults ==
  {"publish",  \* Redis drops an event
   "upsert",   \* the RUNNING upsert of _handle_debug_chunk
   "backfill", \* the UPDATE of _maybe_backfill_city_budget
   "record",   \* the transaction that ends the run
   "content",  \* the graph ends without a financial_report
   "task",     \* the task fails outside the run, to the last retry
   "crash"}    \* the worker is killed

ASSUME ConstantsAssumption ==
  /\ Step \in [Nodes -> Nat]
  /\ Intake \in Nodes
  /\ \A n \in Nodes \ {Intake} : Step[Intake] < Step[n]
  /\ NoNode \notin Nodes
  /\ PollAttempts \in Nat \ {0}
  /\ CommitWithinPollBudget \in BOOLEAN
  /\ FaultPoints \subseteq Faults
  /\ MaxRuns \in Nat
  /\ MaxLogs \in Nat

VARIABLES
  status,    \* investment_requests.status
  details,   \* whether city and budget hold the extracted values
  rows,      \* agent_runs: each node's status, and the run that wrote it
  loop,      \* where the recorder is in _run_and_record
  run,       \* how many times the job has been claimed
  started,   \* started_nodes
  completed, \* completed_nodes
  backfilled,\* city_budget_persisted
  owed,      \* the node whose row is committed and not published yet
  obituaries,\* FAILED events that runs already over have still to publish
  logs,      \* log lines published so far
  sse,       \* where each connection is in _stream_progress_events
  buffer,    \* what Redis has delivered to a connection and it has not read
  view,      \* each node's status as last sent to the client
  polls,     \* poll attempts left
  outcome,   \* the status the connection is about to send, or sent last
  untold,    \* history: nodes whose latest row the channel was not told
  muted,     \* history: a run ended, or lost an event, without a word
  cut        \* history: the runs that ended without recording how

job      == <<status, details, rows>>
recorder == <<loop, run, started, completed, backfilled, owed, obituaries>>
client   == <<sse, view, polls, outcome>>
history  == <<untold, muted, cut>>
vars     == <<job, recorder, logs, client, buffer, history>>

Terminal  == {"completed", "failed"}
NodeState == {"absent", "running", "completed", "failed"}
Event     == [node : Nodes, status : {"running", "completed", "failed", "log"}]

TypeOK ==
  /\ status \in {"pending", "running"} \cup Terminal
  /\ details \in BOOLEAN
  /\ rows \in [Nodes -> [status : NodeState, run : Nat]]
  /\ loop \in {"idle", "streaming", "persisting"}
  /\ run \in Nat
  /\ started \subseteq Nodes
  /\ completed \subseteq started
  /\ backfilled \in BOOLEAN
  /\ owed \in Nodes \cup {NoNode}
  /\ obituaries \subseteq Nat \X Nodes
  /\ logs \in Nat
  /\ sse \in [Clients -> {"off", "subscribed", "snapshot", "listening", "polling",
                          "draining", "closed", "gone"}]
  /\ buffer \in [Clients -> Seq(Event)]
  /\ view \in [Clients -> [Nodes -> NodeState]]
  /\ polls \in [Clients -> 0..PollAttempts]
  /\ outcome \in [Clients -> {"none"} \cup Terminal]
  /\ untold \subseteq Nodes
  /\ muted \in BOOLEAN
  /\ cut \subseteq Nat
  /\ owed # NoNode => rows[owed].status # "absent"

Init ==
  /\ status = "pending"
  /\ details = FALSE
  /\ rows = [n \in Nodes |-> [status |-> "absent", run |-> 0]]
  /\ loop = "idle"
  /\ run = 0
  /\ started = {}
  /\ completed = {}
  /\ backfilled = FALSE
  /\ owed = NoNode
  /\ obituaries = {}
  /\ logs = 0
  /\ sse = [c \in Clients |-> "off"]
  /\ buffer = [c \in Clients |-> <<>>]
  /\ view = [c \in Clients |-> [n \in Nodes |-> "absent"]]
  /\ polls = [c \in Clients |-> 0]
  /\ outcome = [c \in Clients |-> "none"]
  /\ untold = {}
  /\ muted = FALSE
  /\ cut = {}

-----------------------------------------------------------------------------
(***************************************************************************)
(* orchestration/run_recorder.py                                           *)
(***************************************************************************)

\* A worker's try_claim_run() succeeds and _run_and_record() starts afresh.
Claim ==
  /\ loop = "idle"
  /\ status \in {"pending", "failed"}
  /\ run < MaxRuns
  /\ status' = "running"
  /\ run' = run + 1
  /\ loop' = "streaming"
  /\ started' = {}
  /\ completed' = {}
  /\ backfilled' = FALSE
  /\ UNCHANGED <<details, rows, owed, obituaries, logs, client, buffer, history>>

\* The recorder is ready for the next chunk of astream().
Ready == loop = "streaming" /\ owed = NoNode

\* The next "task" chunk can be about n: the supersteps before n's are over.
MayStart(n) ==
  /\ n \notin started
  /\ \A m \in Nodes : Step[m] < Step[n] => m \in completed
  /\ Step[Intake] < Step[n] => backfilled

Record(n, s) == rows' = [rows EXCEPT ![n] = [status |-> s, run |-> run]]

\* _handle_debug_chunk: upsert RUNNING; the event follows.
NodeStarts(n) ==
  /\ Ready
  /\ MayStart(n)
  /\ started' = started \cup {n}
  /\ Record(n, "running")
  /\ owed' = n
  /\ UNCHANGED <<status, details, loop, run, completed, backfilled, obituaries, logs,
                 client, buffer, history>>

\* "task" chunks are emitted at dispatch, before any node of the superstep runs.
SuperstepDispatched(n) == \A m \in Nodes : Step[m] = Step[n] => m \in started

\* _handle_updates_chunk: upsert COMPLETED; the event follows.
NodeCompletes(n) ==
  /\ Ready
  /\ n \in started \ completed
  /\ SuperstepDispatched(n)
  /\ completed' = completed \cup {n}
  /\ Record(n, "completed")
  /\ owed' = n
  /\ UNCHANGED <<status, details, loop, run, started, backfilled, obituaries, logs,
                 client, buffer, history>>

BackfillDue == Ready /\ Intake \in completed /\ ~backfilled

\* _maybe_backfill_city_budget, on the first "values" chunk with ingest_input.
Backfill ==
  /\ BackfillDue
  /\ details' = TRUE
  /\ backfilled' = TRUE
  /\ UNCHANGED <<status, rows, loop, run, started, completed, owed, obituaries, logs,
                 client, buffer, history>>

\* Nodes that had started and not completed, fresh - if a node - the last of them.
Unfinished(fresh) == (started \cup ({fresh} \ {NoNode})) \ completed

\* An exception can leave the loop: a node raised, or the upsert of its result
\* did, once the whole superstep is dispatched; or the backfill; or the RUNNING
\* upsert of fresh, which _handle_debug_chunk has put in started_nodes by then.
LoopRaises(fresh) ==
  /\ Ready
  /\ \/ fresh = NoNode /\ \E n \in started \ completed : SuperstepDispatched(n)
     \/ fresh = NoNode /\ BackfillDue /\ "backfill" \in FaultPoints
     \/ fresh # NoNode /\ MayStart(fresh) /\ "upsert" \in FaultPoints

\* Mutant: the job is marked FAILED and its nodes are left as they were.
RunFailsQuietly(fresh) ==
  /\ LoopRaises(fresh)
  /\ status' = "failed"
  /\ loop' = "idle"
  /\ muted' = TRUE
  /\ UNCHANGED <<details, rows, run, started, completed, backfilled, owed, obituaries,
                 logs, client, buffer, untold, cut>>

\* _mark_failed(): one transaction for the job and its unfinished nodes, whose
\* events follow.  With no unfinished node nothing is ever published.
RunFails(fresh) ==
  /\ LoopRaises(fresh)
  /\ rows' = [n \in Nodes |-> IF n \in Unfinished(fresh)
                               THEN [status |-> "failed", run |-> run] ELSE rows[n]]
  /\ status' = "failed"
  /\ loop' = "idle"
  /\ obituaries' = obituaries \cup ({run} \X Unfinished(fresh))
  /\ muted' = (muted \/ Unfinished(fresh) = {})
  /\ UNCHANGED <<details, run, started, completed, backfilled, owed, logs, client,
                 buffer, untold, cut>>

\* Mutant: the stream is taken to end when the last superstep is dispatched.
EndOfStreamEarly ==
  /\ Ready
  /\ started = Nodes
  /\ backfilled
  /\ loop' = "persisting"
  /\ UNCHANGED <<job, run, started, completed, backfilled, owed, obituaries, logs, client,
                 buffer, history>>

\* astream() ends: every node has run.
EndOfStream ==
  /\ Ready
  /\ completed = Nodes
  /\ backfilled
  /\ loop' = "persisting"
  /\ UNCHANGED <<job, run, started, completed, backfilled, owed, obituaries, logs, client,
                 buffer, history>>

\* _persist_success(): the report and COMPLETED; or, without a
\* financial_report, FAILED and no word to anybody.
PersistSuccess ==
  /\ loop = "persisting"
  /\ status' = "completed"
  /\ loop' = "idle"
  /\ UNCHANGED <<details, rows, run, started, completed, backfilled, owed, obituaries,
                 logs, client, buffer, history>>

PersistNoReport ==
  /\ loop = "persisting"
  /\ "content" \in FaultPoints
  /\ status' = "failed"
  /\ loop' = "idle"
  /\ muted' = TRUE
  /\ UNCHANGED <<details, rows, run, started, completed, backfilled, owed, obituaries,
                 logs, client, buffer, untold, cut>>

\* The transaction of _persist_success() or _mark_failed() raises: the row
\* stays RUNNING, and a retry of the task will be refused.
RecordFails ==
  /\ "record" \in FaultPoints
  /\ loop = "persisting" \/ \E fresh \in Nodes \cup {NoNode} : LoopRaises(fresh)
  /\ loop' = "idle"
  /\ muted' = TRUE
  /\ cut' = cut \cup {run}
  /\ UNCHANGED <<job, run, started, completed, backfilled, owed, obituaries, logs, client,
                 buffer, untold>>

\* on_failure(), the task having failed outside the run.
TaskFails ==
  /\ "task" \in FaultPoints
  /\ loop = "idle"
  /\ status \in {"pending", "running"}
  /\ status' = "failed"
  /\ muted' = TRUE
  /\ UNCHANGED <<details, rows, recorder, logs, client, buffer, untold, cut>>

\* The worker is killed; an event it owed is never published.
Crash ==
  /\ "crash" \in FaultPoints
  /\ loop # "idle"
  /\ loop' = "idle"
  /\ owed' = NoNode
  /\ untold' = IF owed = NoNode THEN untold ELSE untold \cup {owed}
  /\ muted' = TRUE
  /\ cut' = cut \cup {run}
  /\ UNCHANGED <<job, run, started, completed, backfilled, obituaries, logs, client, buffer>>

-----------------------------------------------------------------------------
(***************************************************************************)
(* events/publisher.py: PUBLISH to channel job:{request_id}                *)
(***************************************************************************)

Subscribed(c) == sse[c] \in {"subscribed", "snapshot", "listening", "polling", "draining"}

\* Mutant: a connection only hears what is published while it waits for it.
BroadcastToListeners(n, s) ==
  buffer' = [c \in Clients |->
               IF sse[c] \in {"subscribed", "snapshot", "listening"}
                 THEN Append(buffer[c], [node |-> n, status |-> s]) ELSE buffer[c]]

Broadcast(n, s) ==
  buffer' = [c \in Clients |->
               IF Subscribed(c)
                 THEN Append(buffer[c], [node |-> n, status |-> s]) ELSE buffer[c]]

\* The channel has now been told s of n, for better or worse.
Told(n, s) ==
  untold' = IF rows[n].status = s THEN untold \ {n} ELSE untold \cup {n}

\* publish_progress_event() after an upsert of the running loop.
Publish ==
  /\ owed # NoNode
  /\ Broadcast(owed, rows[owed].status)
  /\ Told(owed, rows[owed].status)
  /\ owed' = NoNode
  /\ UNCHANGED <<job, loop, run, started, completed, backfilled, obituaries, logs, client,
                 muted, cut>>

\* The FAILED event of a node of run r; the job may already be running again.
PublishFailed(r, n) ==
  /\ <<r, n>> \in obituaries
  /\ Broadcast(n, "failed")
  /\ Told(n, "failed")
  /\ obituaries' = obituaries \ {<<r, n>>}
  /\ UNCHANGED <<job, loop, run, started, completed, backfilled, owed, logs, client,
                 muted, cut>>

\* publish_progress_event() swallows a Redis failure; the run goes on.
PublishDropped ==
  /\ "publish" \in FaultPoints
  /\ owed # NoNode
  /\ owed' = NoNode
  /\ untold' = untold \cup {owed}
  /\ muted' = TRUE
  /\ UNCHANGED <<job, loop, run, started, completed, backfilled, obituaries, logs, client,
                 buffer, cut>>

PublishFailedDropped(r, n) ==
  /\ "publish" \in FaultPoints
  /\ <<r, n>> \in obituaries
  /\ obituaries' = obituaries \ {<<r, n>>}
  /\ untold' = untold \cup {n}
  /\ muted' = TRUE
  /\ UNCHANGED <<job, loop, run, started, completed, backfilled, owed, logs, client,
                 buffer, cut>>

\* publish_log_event_for_current_request(), from inside an agent.
PublishLog(n) ==
  /\ loop = "streaming"
  /\ n \in started \ completed
  /\ logs < MaxLogs
  /\ logs' = logs + 1
  /\ Broadcast(n, "log")
  /\ UNCHANGED <<job, recorder, client, history>>

-----------------------------------------------------------------------------
(***************************************************************************)
(* api/v1/reports.py: the stream endpoint                                  *)
(***************************************************************************)

\* The route subscribes before the response starts.
Subscribe(c) ==
  /\ sse[c] = "off"
  /\ sse' = [sse EXCEPT ![c] = "subscribed"]
  /\ UNCHANGED <<job, recorder, logs, buffer, view, polls, outcome, history>>

\* _report_snapshot() reads the job, then - a second statement - its nodes.
ReadStatus(c) ==
  /\ sse[c] = "subscribed"
  /\ outcome' = [outcome EXCEPT ![c] = IF status \in Terminal THEN status ELSE "none"]
  /\ sse' = [sse EXCEPT ![c] = "snapshot"]
  /\ UNCHANGED <<job, recorder, logs, buffer, view, polls, history>>

\* The snapshot is sent; a job that was over is answered with its status.
ReadRuns(c) ==
  /\ sse[c] = "snapshot"
  /\ view' = [view EXCEPT ![c] = [n \in Nodes |-> rows[n].status]]
  /\ sse' = [sse EXCEPT ![c] = IF outcome[c] = "none" THEN "listening" ELSE "closed"]
  /\ buffer' = IF outcome[c] = "none" THEN buffer ELSE [buffer EXCEPT ![c] = <<>>]
  /\ UNCHANGED <<job, recorder, logs, polls, outcome, history>>

\* The event at the head of c's connection goes out to the client.
Forward(c) ==
  /\ buffer[c] # <<>>
  /\ buffer' = [buffer EXCEPT ![c] = Tail(@)]
  /\ LET e == Head(buffer[c])
     IN view' = IF e.status = "log" THEN view
                ELSE [view EXCEPT ![c] = [@ EXCEPT ![e.node] = e.status]]

\* Mutant: only a FAILED event is taken as a sign that the job may be over.
ReceiveAndPollOnFailure(c) ==
  /\ sse[c] = "listening"
  /\ Forward(c)
  /\ IF Head(buffer[c]).status = "failed"
       THEN /\ sse' = [sse EXCEPT ![c] = "polling"]
            /\ polls' = [polls EXCEPT ![c] = PollAttempts]
       ELSE UNCHANGED <<sse, polls>>
  /\ UNCHANGED <<job, recorder, logs, outcome, history>>

\* One round of the live loop; silence (a heartbeat) changes nothing.
Receive(c) ==
  /\ sse[c] = "listening"
  /\ Forward(c)
  /\ IF Head(buffer[c]).status \in Terminal
       THEN /\ sse' = [sse EXCEPT ![c] = "polling"]
            /\ polls' = [polls EXCEPT ![c] = PollAttempts]
       ELSE UNCHANGED <<sse, polls>>
  /\ UNCHANGED <<job, recorder, logs, outcome, history>>

\* All that is left of the run is its last commit.
CommitImminent == completed = Nodes /\ owed = NoNode /\ loop # "idle"

\* _poll_for_terminal_status(): one read, then a sleep.
PollSeesEnd(c) ==
  /\ sse[c] = "polling"
  /\ status \in Terminal
  /\ outcome' = [outcome EXCEPT ![c] = status]
  /\ sse' = [sse EXCEPT ![c] = "draining"]
  /\ UNCHANGED <<job, recorder, logs, buffer, view, polls, history>>

PollAgain(c) ==
  /\ sse[c] = "polling"
  /\ status \notin Terminal
  /\ polls[c] > 1
  /\ polls' = [polls EXCEPT ![c] = @ - 1]
  /\ UNCHANGED <<job, recorder, logs, sse, buffer, view, outcome, history>>

\* The budget is spent: back to listening.
PollGivesUp(c) ==
  /\ sse[c] = "polling"
  /\ status \notin Terminal
  /\ polls[c] = 1
  /\ ~(CommitWithinPollBudget /\ CommitImminent)
  /\ sse' = [sse EXCEPT ![c] = "listening"]
  /\ polls' = [polls EXCEPT ![c] = 0]
  /\ UNCHANGED <<job, recorder, logs, buffer, view, outcome, history>>

\* Whatever is buffered goes out before the status event.
Drain(c) ==
  /\ sse[c] = "draining"
  /\ Forward(c)
  /\ UNCHANGED <<job, recorder, logs, sse, polls, outcome, history>>

\* Mutant: the status event does not wait for the buffer.
SendStatusAtOnce(c) ==
  /\ sse[c] = "draining"
  /\ sse' = [sse EXCEPT ![c] = "closed"]
  /\ buffer' = [buffer EXCEPT ![c] = <<>>]
  /\ UNCHANGED <<job, recorder, logs, view, polls, outcome, history>>

\* event: status, then the finally block unsubscribes.
SendStatus(c) ==
  /\ sse[c] = "draining"
  /\ buffer[c] = <<>>
  /\ sse' = [sse EXCEPT ![c] = "closed"]
  /\ UNCHANGED <<job, recorder, logs, buffer, view, polls, outcome, history>>

\* The client goes away, noticed at a heartbeat or by Starlette; the generator
\* and its locals with it.
Disconnect(c) ==
  /\ Subscribed(c)
  /\ sse' = [sse EXCEPT ![c] = "gone"]
  /\ buffer' = [buffer EXCEPT ![c] = <<>>]
  /\ view' = [view EXCEPT ![c] = [n \in Nodes |-> "absent"]]
  /\ polls' = [polls EXCEPT ![c] = 0]
  /\ outcome' = [outcome EXCEPT ![c] = "none"]
  /\ UNCHANGED <<job, recorder, logs, history>>

-----------------------------------------------------------------------------
\* The recorder's own steps, whatever their result.
Recorder ==
  \/ \E n \in Nodes : NodeStarts(n) \/ NodeCompletes(n)
  \/ Backfill
  \/ \E fresh \in Nodes \cup {NoNode} : RunFails(fresh)
  \/ EndOfStream
  \/ PersistSuccess
  \/ PersistNoReport
  \/ RecordFails
  \/ Publish
  \/ PublishDropped
  \/ \E r \in 1..MaxRuns, n \in Nodes : PublishFailed(r, n) \/ PublishFailedDropped(r, n)

\* The connection's own steps.
Stream(c) ==
  \/ ReadStatus(c)
  \/ ReadRuns(c)
  \/ Receive(c)
  \/ PollSeesEnd(c)
  \/ PollAgain(c)
  \/ PollGivesUp(c)
  \/ Drain(c)
  \/ SendStatus(c)

Next ==
  \/ Claim
  \/ Recorder
  \/ TaskFails
  \/ Crash
  \/ \E n \in Nodes : PublishLog(n)
  \/ \E c \in Clients : Subscribe(c) \/ Stream(c) \/ Disconnect(c)

Spec == Init /\ [][Next]_vars

\* A worker takes the job up, the graph and its recorder make progress (the
\* clients they call have timeouts), and so does the endpoint.
FairSpec ==
  /\ Spec
  /\ WF_vars(Claim)
  /\ WF_vars(Recorder)
  /\ \A c \in Clients : WF_vars(Stream(c))

-----------------------------------------------------------------------------
(***************************************************************************)
(* What the stream promises                                                *)
(***************************************************************************)

\* The event i of c's buffer is the last one there about its node.
LastAbout(c, i) ==
  /\ buffer[c][i].status # "log"
  /\ \A k \in (i+1)..Len(buffer[c]) :
       buffer[c][k].node = buffer[c][i].node => buffer[c][k].status = "log"

Mentioned(c, n) ==
  \E i \in 1..Len(buffer[c]) : buffer[c][i].node = n /\ buffer[c][i].status # "log"

\* Nodes about which the channel still has to hear, or heard wrong.
Behind == untold \cup {owed} \cup {p[2] : p \in obituaries}

\* _stream_progress_events(): subscribing before the snapshot leaves at worst a
\* duplicate, never a silent gap.  What the client was sent, followed by what is
\* in its buffer, is what agent_runs says of every node the channel is up to
\* date on.
NoSilentGap ==
  \A c \in Clients :
    /\ Subscribed(c) =>
         \A i \in 1..Len(buffer[c]) :
           LastAbout(c, i) /\ buffer[c][i].node \notin Behind
             => buffer[c][i].status = rows[buffer[c][i].node].status
    /\ sse[c] \in {"listening", "polling", "draining"} =>
         \A n \in Nodes \ Behind : ~Mentioned(c, n) => view[c][n] = rows[n].status

\* The status event of a completed job comes after every node's completion: the
\* client's picture of the run is whole, however late it connected.
CompletedStreamIsWhole ==
  Behind \subseteq {NoNode} =>
    \A c \in Clients :
      sse[c] = "closed" /\ outcome[c] = "completed" =>
        \A n \in Nodes : view[c][n] = "completed"

\* agent_runs is the audit trail of the run that produced the report: every
\* node's row is COMPLETED and that run's, and city and budget are filled in.
AuditTrailIsWhole ==
  status = "completed" =>
    details /\ \A n \in Nodes : rows[n] = [status |-> "completed", run |-> run]

\* _mark_failed(): a job that is over has no node RUNNING, but for those of a
\* run that was cut short by a kill or by the failure of that very transaction.
NoNodeLeftRunning ==
  status # "running" =>
    \A n \in Nodes : rows[n].status = "running" => rows[n].run \in cut

\* A connection open before the last node ends gets its status event, unless
\* the run lost an event or ended without one.
StreamEnds ==
  \A c \in Clients :
    Subscribed(c) /\ loop = "streaming" /\ (completed # Nodes \/ owed # NoNode)
      ~> sse[c] \in {"closed", "gone"} \/ muted

-----------------------------------------------------------------------------
(***************************************************************************)
(* What the documents say without the reservations above                   *)
(***************************************************************************)

\* api/v1/reports.py:411-415 - a connection is sent zero or more progress
\* events, "then exactly one `event: status` [...], after which the stream ends".
EveryStreamEnds == \A c \in Clients : Subscribed(c) ~> sse[c] \in {"closed", "gone"}
=============================================================================
