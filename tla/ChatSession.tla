---------------------------- MODULE ChatSession -----------------------------
(* One chat session on top of ReportApiClient: what handle_query() draws    *)
(* while it follows the event stream of a message's job.  Each node of the  *)
(* job has a box, opened when the node is first heard of and closed with    *)
(* its verdict; a log line goes under the node's box.  The boxes live in    *)
(* the session, keyed by node only, so what one message leaves open or      *)
(* finished is there when the next one draws.                               *)
(*                                                                          *)
(* An event may tell of any state of any node of the job: late, twice (in   *)
(* the snapshot and after it) or, after a retry, of another attempt.  An    *)
(* event is drawn in one step.                                              *)
EXTENDS ReportApiClient

CONSTANT Nodes

NoMessage == 0

\* The messages of a session are numbered in the order they are typed.
ASSUME SessionAssumption == Messages \subseteq Nat \ {NoMessage}

VARIABLES
    active,     \* active_agent_steps: the message whose box of a node is open
    finished,   \* finished_agent_steps: the one whose box was closed last
    shown,      \* what the latest box of a message and node says
    teller,     \* the message whose event made it say so
    lines,      \* whose boxes hold the lines of a message's node
    left        \* boxes that were open when their message was over

boxes == <<active, finished, shown, teller, lines>>
chatVars == <<boxes, left>>
vars == <<clientVars, chatVars>>

NodeStates == {"running", "completed", "failed"}

Init ==
    /\ ClientInit
    /\ active = [n \in Nodes |-> NoMessage]
    /\ finished = [n \in Nodes |-> NoMessage]
    /\ shown = [m \in Messages |-> [n \in Nodes |-> "nothing"]]
    /\ teller = [m \in Messages |-> [n \in Nodes |-> m]]
    /\ lines = [m \in Messages |-> [n \in Nodes |-> {}]]
    /\ left = {}

----------------------------------------------------------------------------
\* Mutant of Headed: a finished box of the node is opened again.
HeadedAgain(m, n) ==
    CASE active[n] # NoMessage   -> active[n]
      [] finished[n] # NoMessage -> finished[n]
      [] OTHER                   -> m

(* log_agent_header(): the open box of the node, a new one of m if there is *)
(* none.                                                                    *)
Headed(m, n) == IF active[n] # NoMessage THEN active[n] ELSE m

(* _render_node_state(): header, the error of a failed node as a line, and  *)
(* for a node that has ended the footer.                                    *)
Draw(m, n, state) ==
    LET box == Headed(m, n)
    IN  /\ pc[m] = "events"
        /\ shown' = [shown EXCEPT ![box][n] = state]
        /\ teller' = [teller EXCEPT ![box][n] = m]
        /\ lines' = IF state = "failed" THEN [lines EXCEPT ![m][n] = @ \cup {box}]
                    ELSE lines
        /\ IF state = "running"
           THEN active' = [active EXCEPT ![n] = box] /\ UNCHANGED finished
           ELSE /\ active' = [active EXCEPT ![n] = NoMessage]
                /\ finished' = [finished EXCEPT ![n] = box]
        /\ UNCHANGED <<clientVars, left>>

\* Mutant of Parent: the finished boxes are looked up first.
ParentFinishedFirst(m, n) ==
    IF finished[n] # NoMessage THEN finished[n] ELSE Headed(m, n)

(* Where log_agent_content() puts a line of the node: its open box, else    *)
(* its finished one, else a box opened for it.                              *)
Parent(m, n) ==
    IF active[n] = NoMessage /\ finished[n] # NoMessage THEN finished[n] ELSE Headed(m, n)

(* A log event: any line the agent writes, the first perhaps before its     *)
(* node's "running" was published.                                          *)
Log(m, n) ==
    LET box  == Parent(m, n)
        opens == active[n] = NoMessage /\ finished[n] = NoMessage
    IN  /\ pc[m] = "events"
        /\ lines' = [lines EXCEPT ![m][n] = @ \cup {box}]
        /\ active' = IF opens THEN [active EXCEPT ![n] = m] ELSE active
        /\ shown' = IF opens THEN [shown EXCEPT ![m][n] = "running"] ELSE shown
        /\ teller' = IF opens THEN [teller EXCEPT ![m][n] = m] ELSE teller
        /\ UNCHANGED <<clientVars, finished, left>>

(* The session handles one message after the other; whichever way one ends, *)
(* boxes that are open then stay open.                                      *)
Handle(m) ==
    /\ \A earlier \in {k \in Messages : k < m} : pc[earlier] = "over"
    /\ ClientStep(m)
    /\ left' = left \cup IF pc'[m] = "over" THEN {<<m, n>> : n \in {n \in Nodes : active[n] = m}}
                                           ELSE {}
    /\ UNCHANGED boxes

Next ==
    \/ \E m \in Messages :
         \/ Handle(m)
         \/ \E n \in Nodes :
              \/ Log(m, n)
              \/ \E state \in NodeStates : Draw(m, n, state)
    \/ ServerStep /\ UNCHANGED chatVars
    \/ OthersRenew /\ UNCHANGED chatVars

Spec == Init /\ [][Next]_vars

(* HTTP calls end, by an answer or by httpx's 30 seconds, except a stream,  *)
(* which heartbeats may keep open for ever; wait_for's timeout fires.       *)
FairSpec ==
    /\ Spec
    /\ \A m \in Messages :
         /\ WF_vars(Handle(m) /\ (Proceed(m) \/ (NoAnswer(m) /\ pc[m] # "events")))
         /\ WF_vars(Handle(m) /\ TimesOut(m))

----------------------------------------------------------------------------
(* A closed box says what became of its own message's node, never of the    *)
(* same node in another message's job - unless its message left it open     *)
(* (a timeout, a broken stream): then a later message takes it for its own. *)
VerdictIsItsNodes ==
    \A m \in Messages, n \in Nodes :
        shown[m][n] \in {"completed", "failed"} =>
            teller[m][n] = m \/ <<m, n>> \in left

(* Once a message has a box of its own for a node, the node's lines go      *)
(* there.  (Before, they go to what an earlier message has left: logger.py  *)
(* takes a line without a box for one that comes late.)                     *)
LinesGoToOwnBox ==
    [][\A m \in Messages, n \in Nodes :
         shown[m][n] # "nothing" => lines'[m][n] \subseteq lines[m][n] \cup {m}]_vars

(* handle_query always comes to an end, also when the stream never does.    *)
EveryMessageIsAnswered ==
    \A m \in Messages : pc[m] # "typing" ~> pc[m] = "over"
=============================================================================
