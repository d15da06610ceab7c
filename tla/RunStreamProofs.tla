-------------------------- MODULE RunStreamProofs --------------------------
(* Theorems about RunStream, for every value of its constants. *)
EXTENDS RunStream, TLAPS

USE ConstantsAssumption

-----------------------------------------------------------------------------
(***************************************************************************)
(* Type correctness                                                        *)
(***************************************************************************)

LEMMA InitTypeOK == Init => TypeOK
<1> SUFFICES ASSUME Init PROVE TypeOK
  OBVIOUS
<1>1. details \in BOOLEAN /\ backfilled \in BOOLEAN /\ muted \in BOOLEAN
  BY Zenon DEF Init
<1>2. buffer \in [Clients -> Seq(Event)]
  BY DEF Init
<1>3. QED
  BY <1>1, <1>2 DEF Init, TypeOK, NodeState, Terminal

\* A PUBLISH leaves every connection a sequence of events.
LEMMA BroadcastTypes ==
  ASSUME buffer \in [Clients -> Seq(Event)], NEW n \in Nodes,
         NEW s \in {"running", "completed", "failed", "log"}, Broadcast(n, s)
  PROVE  buffer' \in [Clients -> Seq(Event)]
<1>1. [node |-> n, status |-> s] \in Event
  BY DEF Event
<1>2. \A c \in Clients : Append(buffer[c], [node |-> n, status |-> s]) \in Seq(Event)
  BY <1>1
<1>3. QED
  BY <1>2 DEF Broadcast

\* Forwarding an event leaves the buffers and the client's picture well typed.
LEMMA ForwardTypes ==
  ASSUME TypeOK, NEW c \in Clients, Forward(c)
  PROVE  /\ Head(buffer[c]) \in Event
         /\ buffer' \in [Clients -> Seq(Event)]
         /\ view' \in [Clients -> [Nodes -> NodeState]]
<1>1. buffer[c] \in Seq(Event) /\ buffer[c] # <<>>
  BY DEF TypeOK, Forward
<1>2. Head(buffer[c]) \in Event /\ Tail(buffer[c]) \in Seq(Event)
  BY <1>1
<1>3. QED
  BY <1>2 DEF TypeOK, Forward, Event, NodeState

\* A step of the recorder preserves the types.
LEMMA RecorderTypeOK ==
  ASSUME TypeOK, Recorder \/ Claim \/ TaskFails \/ Crash \/ \E n \in Nodes : PublishLog(n)
  PROVE  TypeOK'
<1> USE DEF TypeOK, Terminal, NodeState, job, recorder, client, history
<1>1. CASE Claim
  <2>1. backfilled' \in BOOLEAN
    BY <1>1, Zenon DEF Claim
  <2>2. run' \in Nat
    BY <1>1 DEF Claim
  <2>3. QED
    BY <1>1, <2>1, <2>2 DEF Claim
<1>2. ASSUME NEW n \in Nodes, NodeStarts(n)
      PROVE  TypeOK'
  BY <1>2 DEF NodeStarts, Record
<1>3. ASSUME NEW n \in Nodes, NodeCompletes(n)
      PROVE  TypeOK'
  BY <1>3 DEF NodeCompletes, Record
<1>4. CASE Backfill
  BY <1>4 DEF Backfill
<1>5. ASSUME NEW fresh \in Nodes \cup {NoNode}, RunFails(fresh)
      PROVE  TypeOK'
  <2>1. Unfinished(fresh) \subseteq Nodes
    BY DEF Unfinished
  <2>2. {run} \X Unfinished(fresh) \subseteq Nat \X Nodes
    BY <2>1
  <2>3. QED
    BY <1>5, <2>1, <2>2 DEF RunFails
<1>6. CASE EndOfStream
  BY <1>6 DEF EndOfStream
<1>7. CASE PersistSuccess
  BY <1>7 DEF PersistSuccess
<1>8. CASE PersistNoReport
  BY <1>8 DEF PersistNoReport
<1>9. CASE RecordFails
  BY <1>9 DEF RecordFails
<1>10. CASE Publish
  <2>1. owed \in Nodes /\ rows[owed].status \in NodeState
    BY <1>10 DEF Publish
  <2>2. rows[owed].status \in {"running", "completed", "failed", "log"}
    BY <1>10 DEF Publish
  <2>3. buffer' \in [Clients -> Seq(Event)]
    BY <1>10, <2>1, <2>2, BroadcastTypes DEF Publish
  <2>4. QED
    BY <1>10, <2>1, <2>3 DEF Publish, Told
<1>11. CASE PublishDropped
  BY <1>11 DEF PublishDropped
<1>12. ASSUME NEW r \in 1..MaxRuns, NEW n \in Nodes,
              PublishFailed(r, n) \/ PublishFailedDropped(r, n)
       PROVE  TypeOK'
  <2>1. CASE PublishFailed(r, n)
    <3>1. buffer' \in [Clients -> Seq(Event)]
      BY <2>1, BroadcastTypes DEF PublishFailed
    <3>2. QED
      BY <2>1, <3>1 DEF PublishFailed, Told
  <2>2. CASE PublishFailedDropped(r, n)
    BY <2>2 DEF PublishFailedDropped
  <2>3. QED
    BY <1>12, <2>1, <2>2
<1>13. CASE TaskFails
  BY <1>13 DEF TaskFails
<1>14. CASE Crash
  BY <1>14 DEF Crash
<1>15. ASSUME NEW n \in Nodes, PublishLog(n)
       PROVE  TypeOK'
  <2>1. buffer' \in [Clients -> Seq(Event)]
    BY <1>15, BroadcastTypes DEF PublishLog
  <2>2. QED
    BY <1>15, <2>1 DEF PublishLog
<1>16. QED
  BY <1>1, <1>2, <1>3, <1>4, <1>5, <1>6, <1>7, <1>8, <1>9, <1>10, <1>11, <1>12, <1>13,
     <1>14, <1>15 DEF Recorder

\* A step of a connection preserves the types.
LEMMA ConnectionTypeOK ==
  ASSUME TypeOK, NEW c \in Clients, Subscribe(c) \/ Stream(c) \/ Disconnect(c)
  PROVE  TypeOK'
<1> USE DEF TypeOK, Terminal, NodeState, job, recorder, client, history
<1>1. CASE Subscribe(c)
  BY <1>1 DEF Subscribe
<1>2. CASE ReadStatus(c)
  BY <1>2 DEF ReadStatus
<1>3. CASE ReadRuns(c)
  <2>1. buffer' \in [Clients -> Seq(Event)]
    BY <1>3 DEF ReadRuns
  <2>2. QED
    BY <1>3, <2>1 DEF ReadRuns
<1>4. CASE Receive(c)
  <2>1. buffer' \in [Clients -> Seq(Event)] /\ view' \in [Clients -> [Nodes -> NodeState]]
    BY <1>4, ForwardTypes DEF Receive
  <2>2. sse' \in [Clients -> {"off", "subscribed", "snapshot", "listening", "polling",
                             "draining", "closed", "gone"}]
    BY <1>4 DEF Receive
  <2>3. polls' \in [Clients -> 0..PollAttempts]
    <3>1. PollAttempts \in 0..PollAttempts
      OBVIOUS
    <3>2. polls' = [polls EXCEPT ![c] = PollAttempts] \/ polls' = polls
      BY <1>4 DEF Receive
    <3>3. QED
      BY <3>1, <3>2
  <2>4. QED
    BY <1>4, <2>1, <2>2, <2>3 DEF Receive
<1>5. CASE PollSeesEnd(c)
  BY <1>5 DEF PollSeesEnd
<1>6. CASE PollAgain(c)
  BY <1>6 DEF PollAgain
<1>7. CASE PollGivesUp(c)
  BY <1>7 DEF PollGivesUp
<1>8. CASE Drain(c)
  BY <1>8, ForwardTypes DEF Drain
<1>9. CASE SendStatus(c)
  BY <1>9 DEF SendStatus
<1>10. CASE Disconnect(c)
  BY <1>10 DEF Disconnect
<1>11. QED
  BY <1>1, <1>2, <1>3, <1>4, <1>5, <1>6, <1>7, <1>8, <1>9, <1>10 DEF Stream

\* TypeOK: the values every variable of the recorder and of the connections can
\* hold, among them that an event still to be published is about a recorded node.
THEOREM TypeCorrect == Spec => []TypeOK
<1>1. TypeOK /\ [Next]_vars => TypeOK'
  <2> SUFFICES ASSUME TypeOK, [Next]_vars
               PROVE  TypeOK'
    OBVIOUS
  <2>1. CASE UNCHANGED vars
    BY <2>1 DEF TypeOK, vars, job, recorder, client, history
  <2>2. CASE Next
    BY <2>2, RecorderTypeOK, ConnectionTypeOK DEF Next
  <2>3. QED
    BY <2>1, <2>2
<1>2. QED
  BY InitTypeOK, <1>1, PTL DEF Spec

-----------------------------------------------------------------------------
(***************************************************************************)
(* The rows a run leaves behind                                            *)
(***************************************************************************)

\* A connection only reads what the recorder writes.
LEMMA ConnectionsOnlyRead ==
  ASSUME NEW c \in Clients, Subscribe(c) \/ Stream(c) \/ Disconnect(c)
  PROVE  UNCHANGED <<job, recorder, history>>
  BY DEF Subscribe, Stream, Disconnect, ReadStatus, ReadRuns, Receive, PollSeesEnd,
         PollAgain, PollGivesUp, Drain, SendStatus

Ours(n) == rows[n].status = "completed" /\ rows[n].run = run

\* What a run in progress knows of its own rows.
RunInv ==
  /\ loop # "idle" => status = "running"
  /\ loop # "streaming" => owed = NoNode
  /\ backfilled => details
  /\ loop # "idle" => \A n \in completed : Ours(n)
  /\ loop = "persisting" => backfilled /\ completed = Nodes
  /\ status = "completed" => details /\ \A n \in Nodes : Ours(n)

LEMMA RecorderRunInv ==
  ASSUME TypeOK, RunInv,
         Recorder \/ Claim \/ TaskFails \/ Crash \/ \E n \in Nodes : PublishLog(n)
  PROVE  RunInv'
<1> USE DEF RunInv, Ours, TypeOK, Terminal, NodeState, job, recorder
<1>1. CASE Claim
  BY <1>1 DEF Claim
<1>2. ASSUME NEW n \in Nodes, NodeStarts(n)
      PROVE  RunInv'
  BY <1>2 DEF NodeStarts, Record, Ready, MayStart
<1>3. ASSUME NEW n \in Nodes, NodeCompletes(n)
      PROVE  RunInv'
  BY <1>3 DEF NodeCompletes, Record, Ready
<1>4. CASE Backfill
  BY <1>4 DEF Backfill, BackfillDue, Ready
<1>5. ASSUME NEW fresh \in Nodes \cup {NoNode}, RunFails(fresh)
      PROVE  RunInv'
  BY <1>5 DEF RunFails, LoopRaises, Ready
<1>6. CASE EndOfStream
  BY <1>6 DEF EndOfStream, Ready
<1>7. CASE PersistSuccess
  BY <1>7 DEF PersistSuccess
<1>8. CASE PersistNoReport
  BY <1>8 DEF PersistNoReport
<1>9. CASE RecordFails
  BY <1>9 DEF RecordFails, LoopRaises, Ready
<1>10. CASE Publish
  BY <1>10 DEF Publish
<1>11. CASE PublishDropped
  BY <1>11 DEF PublishDropped
<1>12. ASSUME NEW r \in 1..MaxRuns, NEW n \in Nodes,
              PublishFailed(r, n) \/ PublishFailedDropped(r, n)
       PROVE  RunInv'
  BY <1>12 DEF PublishFailed, PublishFailedDropped
<1>13. CASE TaskFails
  BY <1>13 DEF TaskFails
<1>14. CASE Crash
  BY <1>14 DEF Crash
<1>15. ASSUME NEW n \in Nodes, PublishLog(n)
       PROVE  RunInv'
  BY <1>15 DEF PublishLog
<1>16. QED
  BY <1>1, <1>2, <1>3, <1>4, <1>5, <1>6, <1>7, <1>8, <1>9, <1>10, <1>11, <1>12, <1>13,
     <1>14, <1>15 DEF Recorder

LEMMA RunInvHolds == Spec => []RunInv
<1>1. Init => RunInv
  BY DEF Init, RunInv
<1>2. TypeOK /\ RunInv /\ [Next]_vars => RunInv'
  <2> SUFFICES ASSUME TypeOK, RunInv, [Next]_vars
               PROVE  RunInv'
    OBVIOUS
  <2>1. CASE UNCHANGED vars
    BY <2>1 DEF RunInv, Ours, vars, job, recorder
  <2>2. ASSUME NEW c \in Clients, Subscribe(c) \/ Stream(c) \/ Disconnect(c)
        PROVE  RunInv'
    BY <2>2, ConnectionsOnlyRead DEF RunInv, Ours, job, recorder
  <2>3. QED
    BY <2>1, <2>2, RecorderRunInv DEF Next
<1>3. QED
  BY <1>1, <1>2, TypeCorrect, PTL DEF Spec

\* AuditTrailIsWhole: a COMPLETED job's agent_runs are those of the one run that
\* produced its report, all COMPLETED, and its city and budget are filled in.
THEOREM AuditTrailIsWholeHolds == Spec => []AuditTrailIsWhole
<1>1. TypeOK /\ RunInv => AuditTrailIsWhole
  <2> SUFFICES ASSUME TypeOK, RunInv, status = "completed"
               PROVE  details /\ \A n \in Nodes :
                                  rows[n] = [status |-> "completed", run |-> run]
    BY DEF AuditTrailIsWhole
  <2>1. details
    BY Zenon DEF RunInv
  <2>2. ASSUME NEW n \in Nodes
        PROVE  rows[n] = [status |-> "completed", run |-> run]
    <3>1. rows[n] \in [status : NodeState, run : Nat]
      BY DEF TypeOK
    <3>2. rows[n].status = "completed" /\ rows[n].run = run
      BY DEF RunInv, Ours
    <3>3. QED
      BY <3>1, <3>2
  <2>3. QED
    BY <2>1, <2>2
<1>2. QED
  BY <1>1, TypeCorrect, RunInvHolds, PTL

\* A row says RUNNING only while its node is, as far as the run knows, or when
\* the run that wrote it was cut short.
RunningInv ==
  \A n \in Nodes :
    rows[n].status = "running" /\ rows[n].run \notin cut =>
      loop # "idle" /\ n \in started \ completed /\ rows[n].run = run

LEMMA RecorderRunningInv ==
  ASSUME TypeOK, RunInv, RunningInv,
         Recorder \/ Claim \/ TaskFails \/ Crash \/ \E n \in Nodes : PublishLog(n)
  PROVE  RunningInv'
<1> SUFFICES ASSUME NEW m \in Nodes, rows'[m].status = "running",
                    rows'[m].run \notin cut'
             PROVE  loop' # "idle" /\ m \in started' \ completed' /\ rows'[m].run = run'
  BY DEF RunningInv
<1>0. rows[m].status = "running" /\ rows[m].run \notin cut =>
        loop # "idle" /\ m \in started \ completed /\ rows[m].run = run
  BY DEF RunningInv
<1> USE <1>0 DEF TypeOK, NodeState, job, recorder, history
<1>1. CASE Claim
  BY <1>1 DEF Claim
<1>2. ASSUME NEW n \in Nodes, NodeStarts(n)
      PROVE  loop' # "idle" /\ m \in started' \ completed' /\ rows'[m].run = run'
  BY <1>2 DEF NodeStarts, Record, Ready, MayStart
<1>3. ASSUME NEW n \in Nodes, NodeCompletes(n)
      PROVE  loop' # "idle" /\ m \in started' \ completed' /\ rows'[m].run = run'
  BY <1>3 DEF NodeCompletes, Record, Ready
<1>4. CASE Backfill
  BY <1>4 DEF Backfill, BackfillDue
<1>5. ASSUME NEW fresh \in Nodes \cup {NoNode}, RunFails(fresh)
      PROVE  FALSE
  BY <1>5 DEF RunFails, Unfinished
<1>6. CASE EndOfStream
  BY <1>6 DEF EndOfStream
<1>7. CASE PersistSuccess
  BY <1>7 DEF PersistSuccess, RunInv
<1>8. CASE PersistNoReport
  BY <1>8 DEF PersistNoReport, RunInv
<1>9. CASE RecordFails
  BY <1>9 DEF RecordFails
<1>10. CASE Publish
  BY <1>10 DEF Publish
<1>11. CASE PublishDropped
  BY <1>11 DEF PublishDropped
<1>12. ASSUME NEW r \in 1..MaxRuns, NEW n \in Nodes,
              PublishFailed(r, n) \/ PublishFailedDropped(r, n)
       PROVE  loop' # "idle" /\ m \in started' \ completed' /\ rows'[m].run = run'
  BY <1>12 DEF PublishFailed, PublishFailedDropped
<1>13. CASE TaskFails
  BY <1>13 DEF TaskFails
<1>14. CASE Crash
  BY <1>14 DEF Crash
<1>15. ASSUME NEW n \in Nodes, PublishLog(n)
       PROVE  loop' # "idle" /\ m \in started' \ completed' /\ rows'[m].run = run'
  BY <1>15 DEF PublishLog
<1>16. QED
  BY <1>1, <1>2, <1>3, <1>4, <1>5, <1>6, <1>7, <1>8, <1>9, <1>10, <1>11, <1>12, <1>13,
     <1>14, <1>15 DEF Recorder

\* NoNodeLeftRunning: _mark_failed() and a completed stream leave no row of
\* agent_runs RUNNING; what is left so is of a run cut short by a kill or by a
\* failed commit.
THEOREM NoNodeLeftRunningHolds == Spec => []NoNodeLeftRunning
<1>1. Init => RunningInv
  BY DEF Init, RunningInv
<1>2. TypeOK /\ RunInv /\ RunningInv /\ [Next]_vars => RunningInv'
  <2> SUFFICES ASSUME TypeOK, RunInv, RunningInv, [Next]_vars
               PROVE  RunningInv'
    OBVIOUS
  <2>1. CASE UNCHANGED vars
    BY <2>1 DEF RunningInv, vars, job, recorder, history
  <2>2. ASSUME NEW c \in Clients, Subscribe(c) \/ Stream(c) \/ Disconnect(c)
        PROVE  RunningInv'
    BY <2>2, ConnectionsOnlyRead DEF RunningInv, job, recorder, history
  <2>3. QED
    BY <2>1, <2>2, RecorderRunningInv DEF Next
<1>3. RunInv /\ RunningInv => NoNodeLeftRunning
  BY DEF RunInv, RunningInv, NoNodeLeftRunning
<1>4. QED
  BY <1>1, <1>2, <1>3, TypeCorrect, RunInvHolds, PTL DEF Spec

-----------------------------------------------------------------------------
(***************************************************************************)
(* Between the snapshot and the live events                                *)
(***************************************************************************)

\* NoSilentGap of one connection; a connection that is not subscribed buffers
\* nothing, so the first conjunct of NoSilentGap needs no guard.
NoGap(c) ==
  /\ ~Subscribed(c) => buffer[c] = <<>>
  /\ \A i \in 1..Len(buffer[c]) :
       LastAbout(c, i) /\ buffer[c][i].node \notin Behind
         => buffer[c][i].status = rows[buffer[c][i].node].status
  /\ sse[c] \in {"listening", "polling", "draining"} =>
       \A n \in Nodes \ Behind : ~Mentioned(c, n) => view[c][n] = rows[n].status

\* A connection that does not move notices nothing of a step that leaves the
\* rows of every node the channel is up to date on as they were.
LEMMA BystanderNoGap ==
  ASSUME TypeOK, NEW c \in Clients, NoGap(c),
         sse'[c] = sse[c], buffer'[c] = buffer[c], view'[c] = view[c],
         \A n \in Nodes \ Behind' : n \notin Behind /\ rows'[n].status = rows[n].status
  PROVE  NoGap(c)'
<1>1. ~Subscribed(c)' => buffer'[c] = <<>>
  BY DEF NoGap, Subscribed
<1>2. ASSUME NEW i \in 1..Len(buffer'[c]), LastAbout(c, i)', buffer'[c][i].node \notin Behind'
      PROVE  buffer'[c][i].status = rows'[buffer'[c][i].node].status
  <2>1. LastAbout(c, i)
    BY <1>2 DEF LastAbout
  <2>2. buffer[c] \in Seq(Event) /\ i \in 1..Len(buffer[c])
    BY <1>2 DEF TypeOK
  <2>3. buffer[c][i].node \in Nodes
    <3>1. buffer[c][i] \in Event
      BY <2>2
    <3>2. QED
      BY <3>1 DEF Event
  <2>4. buffer[c][i].node \in Nodes \ Behind'
    BY <1>2, <2>3
  <2>5. buffer[c][i].status = rows[buffer[c][i].node].status
    BY <2>1, <2>2, <2>4 DEF NoGap
  <2>6. QED
    BY <2>4, <2>5
<1>3. ASSUME sse'[c] \in {"listening", "polling", "draining"},
             NEW n \in Nodes \ Behind', ~Mentioned(c, n)'
      PROVE  view'[c][n] = rows'[n].status
  BY <1>3 DEF NoGap, Mentioned
<1>4. QED
  BY <1>1, <1>2, <1>3 DEF NoGap

\* An event about n reaches the connections, and n is up to date only if the
\* event says what the row says.
LEMMA BroadcastNoGap ==
  ASSUME TypeOK, NEW c \in Clients, NoGap(c),
         NEW n \in Nodes, NEW s \in {"running", "completed", "failed"}, Broadcast(n, s),
         UNCHANGED <<sse, view, rows>>,
         \A m \in Nodes \ Behind' : IF m = n THEN rows[n].status = s ELSE m \notin Behind
  PROVE  NoGap(c)'
<1> DEFINE e == [node |-> n, status |-> s]
           b == buffer[c]
<1>0. b \in Seq(Event) /\ e \in Event
  BY DEF TypeOK, Event
<1>1. CASE ~Subscribed(c)
  BY <1>1 DEF NoGap, Broadcast, Subscribed, LastAbout, Mentioned, TypeOK
<1>2. CASE Subscribed(c)
  <2>1. buffer'[c] = Append(b, e)
    BY <1>2 DEF Broadcast, TypeOK
  <2>2. /\ Len(buffer'[c]) = Len(b) + 1
        /\ buffer'[c][Len(b) + 1] = e
        /\ \A i \in 1..Len(b) : buffer'[c][i] = b[i]
    BY <1>0, <2>1
  <2> HIDE DEF b
  <2>3. Len(b) \in Nat
    BY <1>0
  <2>4. ASSUME NEW i \in 1..Len(buffer'[c]), LastAbout(c, i)',
               buffer'[c][i].node \notin Behind'
        PROVE  buffer'[c][i].status = rows'[buffer'[c][i].node].status
    <3>1. CASE i = Len(b) + 1
      BY <2>2, <2>4, <3>1
    <3>2. CASE i \in 1..Len(b)
      <4>1. b[i] \in Event
        BY <1>0, <3>2
      <4>2. b[i].node # n
        BY <2>2, <2>3, <2>4, <3>2 DEF LastAbout
      <4>3. LastAbout(c, i)
        <5>1. ASSUME NEW k \in (i+1)..Len(b), b[k].node = b[i].node
              PROVE  b[k].status = "log"
          <6>1. k \in 1..Len(b) /\ k \in (i+1)..Len(buffer'[c])
            BY <2>2, <2>3, <3>2
          <6>2. QED
            BY <2>2, <2>4, <3>2, <5>1, <6>1 DEF LastAbout
        <5>2. b[i].status # "log"
          BY <2>2, <2>4, <3>2 DEF LastAbout
        <5>3. QED
          BY <5>1, <5>2 DEF LastAbout, b
      <4>4. b[i].node \in Nodes \ Behind
        BY <2>2, <2>4, <3>2, <4>1, <4>2 DEF Event
      <4>5. QED
        BY <2>2, <3>2, <4>3, <4>4 DEF NoGap, b
    <3>3. QED
      BY <2>2, <2>3, <3>1, <3>2
  <2>5. ASSUME sse'[c] \in {"listening", "polling", "draining"},
               NEW m \in Nodes \ Behind', ~Mentioned(c, m)'
        PROVE  view'[c][m] = rows'[m].status
    <3>1. m # n
      BY <2>2, <2>3, <2>5 DEF Mentioned
    <3>2. ~Mentioned(c, m)
      BY <2>2, <2>3, <2>5 DEF Mentioned, b
    <3>3. QED
      BY <2>5, <3>1, <3>2 DEF NoGap
  <2>6. QED
    BY <1>2, <2>4, <2>5 DEF NoGap, Subscribed
<1>3. QED
  BY <1>1, <1>2

\* A log line says nothing about any node's status.
LEMMA LogNoGap ==
  ASSUME TypeOK, NEW c \in Clients, NoGap(c), NEW n \in Nodes, PublishLog(n)
  PROVE  NoGap(c)'
<1> DEFINE e == [node |-> n, status |-> "log"]
           b == buffer[c]
<1>0. b \in Seq(Event) /\ e \in Event /\ Behind' = Behind /\ rows' = rows
      /\ sse' = sse /\ view' = view /\ Broadcast(n, "log")
  BY DEF TypeOK, Event, PublishLog, Behind, job, recorder, client, history
<1>1. CASE ~Subscribed(c)
  <2>1. buffer'[c] = b
    BY <1>0, <1>1 DEF Broadcast, TypeOK
  <2>2. QED
    BY <1>0, <1>1, <2>1, BystanderNoGap
<1>2. CASE Subscribed(c)
  <2>1. buffer'[c] = Append(b, e)
    BY <1>0, <1>2 DEF Broadcast, TypeOK
  <2>2. /\ Len(buffer'[c]) = Len(b) + 1
        /\ buffer'[c][Len(b) + 1] = e
        /\ \A i \in 1..Len(b) : buffer'[c][i] = b[i]
    BY <1>0, <2>1
  <2> HIDE DEF b
  <2>3. Len(b) \in Nat
    BY <1>0
  <2>4. ASSUME NEW i \in 1..Len(buffer'[c]), LastAbout(c, i)',
               buffer'[c][i].node \notin Behind'
        PROVE  buffer'[c][i].status = rows'[buffer'[c][i].node].status
    <3>1. i # Len(b) + 1
      BY <2>2, <2>4 DEF LastAbout
    <3>2. i \in 1..Len(b)
      BY <2>2, <2>3, <3>1
    <3>3. LastAbout(c, i)
      <4>1. ASSUME NEW k \in (i+1)..Len(b), b[k].node = b[i].node
            PROVE  b[k].status = "log"
        <5>1. k \in 1..Len(b) /\ k \in (i+1)..Len(buffer'[c])
          BY <2>2, <2>3, <3>2
        <5>2. QED
          BY <2>2, <2>4, <3>2, <4>1, <5>1 DEF LastAbout
      <4>2. b[i].status # "log"
        BY <2>2, <2>4, <3>2 DEF LastAbout
      <4>3. QED
        BY <4>1, <4>2 DEF LastAbout, b
    <3>4. QED
      BY <1>0, <2>2, <2>4, <3>2, <3>3 DEF NoGap, b
  <2>5. ASSUME sse'[c] \in {"listening", "polling", "draining"},
               NEW m \in Nodes \ Behind', ~Mentioned(c, m)'
        PROVE  view'[c][m] = rows'[m].status
    <3>1. ~Mentioned(c, m)
      BY <2>2, <2>3, <2>5 DEF Mentioned, b
    <3>2. QED
      BY <1>0, <2>5, <3>1 DEF NoGap
  <2>6. QED
    BY <1>0, <1>2, <2>4, <2>5 DEF NoGap, Subscribed
<1>3. QED
  BY <1>1, <1>2

\* What the recorder does is about a node the channel is then behind on, or
\* reaches every connection.
LEMMA RecorderNoGap ==
  ASSUME TypeOK, NEW c \in Clients, NoGap(c),
         Recorder \/ Claim \/ TaskFails \/ Crash \/ \E n \in Nodes : PublishLog(n)
  PROVE  NoGap(c)'
<1> DEFINE UpToDate ==
      \A m \in Nodes \ Behind' : m \notin Behind /\ rows'[m].status = rows[m].status
<1> USE DEF job, recorder, client, history
<1>1. ASSUME UNCHANGED <<sse, buffer, view>>, UpToDate
      PROVE  NoGap(c)'
  BY <1>1, BystanderNoGap
<1> HIDE DEF UpToDate
<1>2. CASE Claim
  BY <1>1, <1>2 DEF Claim, UpToDate, Behind
<1>3. ASSUME NEW n \in Nodes, NodeStarts(n) \/ NodeCompletes(n)
      PROVE  NoGap(c)'
  <2>1. UNCHANGED <<sse, buffer, view, untold, obituaries>> /\ owed = NoNode /\ owed' = n
    BY <1>3 DEF NodeStarts, NodeCompletes, Ready
  <2>2. \A m \in Nodes \ {n} : rows'[m] = rows[m]
    BY <1>3 DEF NodeStarts, NodeCompletes, Record, TypeOK
  <2>3. UpToDate
    BY <2>1, <2>2 DEF UpToDate, Behind
  <2>4. QED
    BY <1>1, <2>1, <2>3
<1>4. CASE Backfill
  BY <1>1, <1>4 DEF Backfill, UpToDate, Behind
<1>5. ASSUME NEW fresh \in Nodes \cup {NoNode}, RunFails(fresh)
      PROVE  NoGap(c)'
  <2>1. \A m \in Unfinished(fresh) : m \in Behind'
    <3>1. \A m \in Unfinished(fresh) : <<run, m>> \in obituaries'
      BY <1>5 DEF RunFails
    <3>2. \A m \in Unfinished(fresh) : m \in {p[2] : p \in obituaries'}
      <4>1. SUFFICES ASSUME NEW m \in Unfinished(fresh)
                     PROVE  \E p \in obituaries' : p[2] = m
        OBVIOUS
      <4>2. <<run, m>>[2] = m
        OBVIOUS
      <4>3. QED
        BY <3>1, <4>2
    <3>3. QED
      BY <3>2 DEF Behind
  <2>2. \A m \in Nodes \ Unfinished(fresh) : rows'[m] = rows[m]
    BY <1>5 DEF RunFails
  <2>3. Behind \subseteq Behind'
    BY <1>5 DEF RunFails, Behind
  <2>4. UpToDate
    BY <2>1, <2>2, <2>3 DEF UpToDate
  <2>5. QED
    BY <1>1, <1>5, <2>4 DEF RunFails
<1>6. CASE EndOfStream \/ PersistSuccess \/ PersistNoReport \/ RecordFails \/ TaskFails
  <2>1. UNCHANGED <<sse, buffer, view, rows, untold, owed, obituaries>>
    BY <1>6 DEF EndOfStream, PersistSuccess, PersistNoReport, RecordFails, TaskFails
  <2>2. QED
    BY <1>1, <2>1 DEF UpToDate, Behind
<1>7. CASE Publish
  <2>1. owed \in Nodes /\ rows[owed].status \in {"running", "completed", "failed"}
    BY <1>7 DEF Publish, TypeOK, NodeState
  <2>2. \A m \in Nodes \ Behind' : m # owed => m \notin Behind
    BY <1>7, <2>1 DEF Publish, Told, Behind
  <2>3. QED
    BY <1>7, <2>1, <2>2, BroadcastNoGap DEF Publish
<1>8. CASE PublishDropped
  BY <1>1, <1>8 DEF PublishDropped, UpToDate, Behind
<1>9. ASSUME NEW r \in 1..MaxRuns, NEW n \in Nodes, PublishFailed(r, n)
      PROVE  NoGap(c)'
  <2>1. \A m \in Nodes \ Behind' :
          IF m = n THEN rows[n].status = "failed" ELSE m \notin Behind
    <3>1. n \notin Behind' => rows[n].status = "failed"
      BY <1>9 DEF PublishFailed, Told, Behind
    <3>2. \A m \in Nodes \ {n} : m \in Behind => m \in Behind'
      BY <1>9 DEF PublishFailed, Told, Behind
    <3>3. QED
      BY <3>1, <3>2
  <2>2. QED
    BY <1>9, <2>1, BroadcastNoGap DEF PublishFailed
<1>10. ASSUME NEW r \in 1..MaxRuns, NEW n \in Nodes, PublishFailedDropped(r, n)
       PROVE  NoGap(c)'
  <2>1. Behind \subseteq Behind'
    BY <1>10 DEF PublishFailedDropped, Behind
  <2>2. QED
    BY <1>1, <1>10, <2>1 DEF PublishFailedDropped, UpToDate
<1>11. CASE Crash
  <2>1. Behind \cap Nodes \subseteq Behind'
    BY <1>11 DEF Crash, Behind, TypeOK
  <2>2. QED
    BY <1>1, <1>11, <2>1 DEF Crash, UpToDate
<1>12. QED
  BY <1>2, <1>3, <1>4, <1>5, <1>6, <1>7, <1>8, <1>9, <1>10, <1>11, LogNoGap DEF Recorder

\* Forwarding the first event of the buffer moves it into the client's picture.
LEMMA ForwardNoGap ==
  ASSUME TypeOK, NEW c \in Clients, NoGap(c), Forward(c),
         sse[c] \in {"listening", "draining"}, Subscribed(c)',
         UNCHANGED <<job, recorder, history>>
  PROVE  NoGap(c)'
<1> DEFINE b == buffer[c]
<1>0. b \in Seq(Event) /\ b # <<>> /\ b[1] = Head(b) /\ b[1] \in Event
  BY DEF TypeOK, Forward
<1>1. buffer'[c] = Tail(b) /\ Behind' = Behind /\ rows' = rows
  BY DEF Forward, TypeOK, Behind, job, recorder, history
<1>2. /\ Len(b) \in Nat \ {0}
      /\ Len(buffer'[c]) = Len(b) - 1
      /\ \A i \in 1..(Len(b) - 1) : buffer'[c][i] = b[i + 1]
  BY <1>0, <1>1
<1>3. view'[c] = IF b[1].status = "log" THEN view[c]
                 ELSE [view[c] EXCEPT ![b[1].node] = b[1].status]
  BY <1>0 DEF Forward, TypeOK
<1>4. view[c] \in [Nodes -> NodeState]
  BY DEF TypeOK
<1> HIDE DEF b
<1>5. ASSUME NEW i \in 1..Len(buffer'[c]), LastAbout(c, i)',
             buffer'[c][i].node \notin Behind'
      PROVE  buffer'[c][i].status = rows'[buffer'[c][i].node].status
  <2>1. i + 1 \in 1..Len(b) /\ buffer'[c][i] = b[i + 1]
    BY <1>2
  <2>2. LastAbout(c, i + 1)
    <3>1. ASSUME NEW k \in (i + 2)..Len(b), b[k].node = b[i + 1].node
          PROVE  b[k].status = "log"
      <4>1. k - 1 \in (i + 1)..Len(buffer'[c]) /\ buffer'[c][k - 1] = b[k]
        BY <1>2
      <4>2. QED
        BY <1>5, <2>1, <3>1, <4>1 DEF LastAbout
    <3>2. b[i + 1].status # "log"
      BY <1>5, <2>1 DEF LastAbout
    <3>3. (i + 1) + 1 = i + 2
      OBVIOUS
    <3>4. QED
      BY <3>1, <3>2, <3>3 DEF LastAbout, b
  <2>3. QED
    BY <1>1, <1>5, <2>1, <2>2 DEF NoGap, b
<1>6. ASSUME NEW m \in Nodes \ Behind', ~Mentioned(c, m)'
      PROVE  view'[c][m] = rows'[m].status
  <2>1. \A k \in 2..Len(b) : b[k].node = m => b[k].status = "log"
    <3>1. ASSUME NEW k \in 2..Len(b), b[k].node = m
          PROVE  b[k].status = "log"
      <4>1. k - 1 \in 1..Len(buffer'[c]) /\ buffer'[c][k - 1] = b[k]
        BY <1>2
      <4>2. QED
        BY <1>6, <3>1, <4>1 DEF Mentioned
    <3>2. QED
      BY <3>1
  <2>2. CASE b[1].node = m /\ b[1].status # "log"
    <3>1. 1 \in 1..Len(b) /\ 1 + 1 = 2
      BY <1>2
    <3>2. LastAbout(c, 1)
      BY <2>1, <2>2, <3>1 DEF LastAbout, b
    <3>3. b[1].status = rows[m].status
      BY <1>1, <1>6, <2>2, <3>1, <3>2 DEF NoGap, b
    <3>4. QED
      BY <1>1, <1>3, <1>4, <2>2, <3>3
  <2>3. CASE ~(b[1].node = m /\ b[1].status # "log")
    <3>1. ~Mentioned(c, m)
      BY <1>2, <2>1, <2>3 DEF Mentioned, b
    <3>2. view[c][m] = rows[m].status
      BY <1>1, <1>6, <3>1 DEF NoGap
    <3>3. QED
      BY <1>0, <1>1, <1>3, <1>4, <2>3, <3>2 DEF Event
  <2>4. QED
    BY <2>2, <2>3
<1>7. QED
  BY <1>5, <1>6 DEF NoGap

\* A connection's own step, and what it means for another connection.
LEMMA ConnectionNoGap ==
  ASSUME TypeOK, NEW c \in Clients, NoGap(c),
         NEW d \in Clients, Subscribe(d) \/ Stream(d) \/ Disconnect(d)
  PROVE  NoGap(c)'
<1>1. UNCHANGED <<job, recorder, history>>
  BY ConnectionsOnlyRead
<1>2. rows' = rows /\ Behind' = Behind
  BY <1>1 DEF job, recorder, history, Behind
<1>3. CASE d # c
  <2>1. sse'[c] = sse[c] /\ buffer'[c] = buffer[c] /\ view'[c] = view[c]
    BY <1>3 DEF TypeOK, Subscribe, Stream, Disconnect, ReadStatus, ReadRuns, Receive,
                PollSeesEnd, PollAgain, PollGivesUp, Drain, SendStatus, Forward
  <2>2. QED
    BY <1>2, <2>1, BystanderNoGap
<1>4. CASE d = c
  <2> USE <1>2, <1>4 DEF Subscribed
  <2>1. CASE Subscribe(c)
    BY <2>1 DEF Subscribe, NoGap, TypeOK, LastAbout, Mentioned
  <2>2. CASE ReadStatus(c)
    BY <2>2 DEF ReadStatus, NoGap, TypeOK, LastAbout, Mentioned
  <2>3. CASE ReadRuns(c)
    <3>1. \A n \in Nodes : view'[c][n] = rows'[n].status
      BY <2>3 DEF ReadRuns, TypeOK
    <3>2. \/ sse'[c] = "listening" /\ buffer'[c] = buffer[c]
          \/ sse'[c] = "closed" /\ buffer'[c] = <<>>
      <4>1. CASE outcome[c] = "none"
        BY <2>3, <4>1 DEF ReadRuns, TypeOK
      <4>2. CASE outcome[c] # "none"
        BY <2>3, <4>2 DEF ReadRuns, TypeOK
      <4>3. QED
        BY <4>1, <4>2
    <3>3. CASE sse'[c] = "listening" /\ buffer'[c] = buffer[c]
      <4>1. \A i \in 1..Len(buffer'[c]) : LastAbout(c, i)' => LastAbout(c, i)
        BY <3>3 DEF LastAbout
      <4>2. QED
        BY <3>1, <3>3, <4>1 DEF NoGap
    <3>4. CASE sse'[c] = "closed" /\ buffer'[c] = <<>>
      BY <3>4 DEF NoGap
    <3>5. QED
      BY <3>2, <3>3, <3>4
  <2>4. CASE Receive(c)
    <3>1. sse'[c] \in {"listening", "polling"}
      BY <2>4 DEF Receive, TypeOK
    <3>2. QED
      BY <1>1, <2>4, <3>1, ForwardNoGap DEF Receive
  <2>5. CASE PollSeesEnd(c) \/ PollAgain(c) \/ PollGivesUp(c)
    <3>1. /\ sse[c] = "polling"
          /\ sse'[c] \in {"listening", "polling", "draining"}
          /\ UNCHANGED <<buffer, view>>
      BY <2>5 DEF PollSeesEnd, PollAgain, PollGivesUp, TypeOK
    <3>2. QED
      BY <3>1 DEF NoGap, LastAbout, Mentioned
  <2>6. CASE Drain(c)
    BY <1>1, <2>6, ForwardNoGap DEF Drain
  <2>7. CASE SendStatus(c)
    BY <2>7 DEF SendStatus, NoGap, TypeOK
  <2>8. CASE Disconnect(c)
    BY <2>8 DEF Disconnect, NoGap, TypeOK
  <2>9. QED
    BY <2>1, <2>2, <2>3, <2>4, <2>5, <2>6, <2>7, <2>8 DEF Stream
<1>5. QED
  BY <1>3, <1>4

NoGaps == \A c \in Clients : NoGap(c)

LEMMA NoGapsHold == Spec => []NoGaps
<1>1. Init => NoGaps
  BY DEF Init, NoGaps, NoGap, Subscribed
<1>2. TypeOK /\ NoGaps /\ [Next]_vars => NoGaps'
  <2> SUFFICES ASSUME TypeOK, NoGaps, [Next]_vars, NEW c \in Clients
               PROVE  NoGap(c)'
    BY DEF NoGaps
  <2>0. NoGap(c)
    BY DEF NoGaps
  <2>1. CASE UNCHANGED vars
    BY <2>0, <2>1, BystanderNoGap DEF Behind, vars, job, recorder, client, history
  <2>2. CASE Next
    BY <2>0, <2>2, RecorderNoGap, ConnectionNoGap DEF Next
  <2>3. QED
    BY <2>1, <2>2
<1>3. QED
  BY <1>1, <1>2, TypeCorrect, PTL DEF Spec

\* NoSilentGap: subscribing before the snapshot is read leaves no gap, whatever
\* is published, lost or committed between the endpoint's statements.
THEOREM NoSilentGapHolds == Spec => []NoSilentGap
<1>1. NoGaps => NoSilentGap
  BY DEF NoGaps, NoGap, NoSilentGap
<1>2. QED
  BY <1>1, NoGapsHold, PTL

-----------------------------------------------------------------------------
(***************************************************************************)
(* The client of a completed job                                           *)
(***************************************************************************)

\* What a connection knows of a completed job.
Whole(c) ==
  /\ outcome[c] = "completed" => status = "completed"
  /\ sse[c] = "closed" /\ outcome[c] = "completed" =>
       \A n \in Nodes \ Behind : view[c][n] = "completed"

LEMMA RecorderLeavesClients ==
  ASSUME Recorder \/ Claim \/ TaskFails \/ Crash \/ \E n \in Nodes : PublishLog(n)
  PROVE  UNCHANGED client
  BY DEF Recorder, Claim, TaskFails, Crash, PublishLog, NodeStarts, NodeCompletes,
         Backfill, RunFails, EndOfStream, PersistSuccess, PersistNoReport, RecordFails,
         Publish, PublishDropped, PublishFailed, PublishFailedDropped

\* Nothing happens to a completed job but the obituaries of its earlier runs,
\* and those leave the channel behind on the nodes they are about.
LEMMA CompletedStays ==
  ASSUME TypeOK, RunInv, status = "completed",
         Recorder \/ Claim \/ TaskFails \/ Crash \/ \E n \in Nodes : PublishLog(n)
  PROVE  status' = "completed" /\ Behind \cap Nodes \subseteq Behind'
<1>1. loop = "idle" /\ owed = NoNode /\ \A n \in Nodes : rows[n].status = "completed"
  BY DEF RunInv, Ours
<1> USE <1>1 DEF job, recorder, history
<1>2. \E r \in 1..MaxRuns, n \in Nodes : PublishFailed(r, n) \/ PublishFailedDropped(r, n)
  BY DEF Recorder, Claim, TaskFails, Crash, PublishLog, NodeStarts, NodeCompletes,
         Backfill, BackfillDue, RunFails, LoopRaises, Ready, EndOfStream, PersistSuccess,
         PersistNoReport, RecordFails, Publish, PublishDropped
<1>3. ASSUME NEW r \in 1..MaxRuns, NEW n \in Nodes, PublishFailed(r, n)
      PROVE  status' = "completed" /\ Behind \cap Nodes \subseteq Behind'
  BY <1>3 DEF PublishFailed, Told, Behind
<1>4. ASSUME NEW r \in 1..MaxRuns, NEW n \in Nodes, PublishFailedDropped(r, n)
      PROVE  status' = "completed" /\ Behind \cap Nodes \subseteq Behind'
  BY <1>4 DEF PublishFailedDropped, Behind
<1>5. QED
  BY <1>2, <1>3, <1>4

LEMMA RecorderWhole ==
  ASSUME TypeOK, RunInv, NEW c \in Clients, Whole(c),
         Recorder \/ Claim \/ TaskFails \/ Crash \/ \E n \in Nodes : PublishLog(n)
  PROVE  Whole(c)'
<1>1. UNCHANGED <<sse, view, outcome>>
  BY RecorderLeavesClients DEF client
<1>2. CASE status = "completed"
  BY <1>1, <1>2, CompletedStays DEF Whole
<1>3. CASE status # "completed"
  BY <1>1, <1>3 DEF Whole
<1>4. QED
  BY <1>2, <1>3

LEMMA ConnectionWhole ==
  ASSUME TypeOK, RunInv, NEW c \in Clients, NoGap(c), Whole(c),
         NEW d \in Clients, Subscribe(d) \/ Stream(d) \/ Disconnect(d)
  PROVE  Whole(c)'
<1>1. status' = status /\ rows' = rows /\ Behind' = Behind
  BY ConnectionsOnlyRead DEF job, recorder, history, Behind
<1>2. status = "completed" => \A n \in Nodes : rows[n].status = "completed"
  BY DEF RunInv, Ours
<1>3. CASE d # c
  <2>1. sse'[c] = sse[c] /\ outcome'[c] = outcome[c] /\ view'[c] = view[c]
    BY <1>3 DEF TypeOK, Subscribe, Stream, Disconnect, ReadStatus, ReadRuns, Receive,
                PollSeesEnd, PollAgain, PollGivesUp, Drain, SendStatus, Forward
  <2>2. QED
    BY <1>1, <2>1 DEF Whole
<1>4. CASE d = c
  <2> USE <1>1, <1>4 DEF Whole, TypeOK
  <2>1. CASE Subscribe(c)
    BY <2>1 DEF Subscribe
  <2>2. CASE ReadStatus(c)
    BY <2>2 DEF ReadStatus
  <2>3. CASE ReadRuns(c)
    BY <1>2, <2>3 DEF ReadRuns
  <2>4. CASE Receive(c)
    BY <2>4 DEF Receive
  <2>5. CASE PollSeesEnd(c)
    BY <2>5 DEF PollSeesEnd
  <2>6. CASE PollAgain(c) \/ PollGivesUp(c)
    BY <2>6 DEF PollAgain, PollGivesUp
  <2>7. CASE Drain(c)
    BY <2>7 DEF Drain
  <2>8. CASE SendStatus(c)
    <3>1. \A n \in Nodes : ~Mentioned(c, n)
      BY <2>8 DEF SendStatus, Mentioned
    <3>2. \A n \in Nodes \ Behind : view[c][n] = rows[n].status
      BY <2>8, <3>1 DEF SendStatus, NoGap
    <3>3. QED
      BY <1>2, <2>8, <3>2 DEF SendStatus
  <2>9. CASE Disconnect(c)
    BY <2>9 DEF Disconnect
  <2>10. QED
    BY <2>1, <2>2, <2>3, <2>4, <2>5, <2>6, <2>7, <2>8, <2>9 DEF Stream
<1>5. QED
  BY <1>3, <1>4

WholeInv == \A c \in Clients : Whole(c)

\* CompletedStreamIsWhole: the status event of a completed job reaches a client
\* that has been shown every node COMPLETED, unless the channel lost an event.
THEOREM CompletedStreamIsWholeHolds == Spec => []CompletedStreamIsWhole
<1>1. Init => WholeInv
  BY DEF Init, WholeInv, Whole
<1>2. TypeOK /\ RunInv /\ NoGaps /\ WholeInv /\ [Next]_vars => WholeInv'
  <2> SUFFICES ASSUME TypeOK, RunInv, NoGaps, WholeInv, [Next]_vars, NEW c \in Clients
               PROVE  Whole(c)'
    BY DEF WholeInv
  <2>0. NoGap(c) /\ Whole(c)
    BY DEF NoGaps, WholeInv
  <2>1. CASE UNCHANGED vars
    BY <2>0, <2>1 DEF Whole, Behind, vars, job, recorder, client, history
  <2>2. CASE Next
    BY <2>0, <2>2, RecorderWhole, ConnectionWhole DEF Next
  <2>3. QED
    BY <2>1, <2>2
<1>3. WholeInv => CompletedStreamIsWhole
  BY DEF WholeInv, Whole, CompletedStreamIsWhole
<1>4. QED
  BY <1>1, <1>2, <1>3, TypeCorrect, RunInvHolds, NoGapsHold, PTL DEF Spec

=============================================================================
