---------------------------- MODULE ResearchRun ----------------------------
(***************************************************************************)
(* One worker process and the calls it makes to one vendor, through the    *)
(* breaker that the process keeps for it across runs.  A run of the graph  *)
(* is an intake node, the supervisor, three researchers side by side and   *)
(* the financial modeler behind their join; three of the nodes are agents, *)
(* a model that answers or asks for tools and is given their results.  A   *)
(* node that raises fails the run, and LangGraph cancels the nodes beside  *)
(* it wherever they are, a vendor call included.                           *)
(*                                                                         *)
(* The vendor that is watched is RapidAPI, called by the market node, or   *)
(* Pinecone, called by the zoning agent's search tool: the dense-only one, *)
(* which runs in a thread that no cancellation interrupts, or the hybrid   *)
(* one, a coroutine.  Between runs the process may be given the knowledge- *)
(* base sync, which shares Pinecone's breaker.                             *)
(*                                                                         *)
(* The language models, the MCP servers behind the agents' other tools and *)
(* LangGraph are external.  A process works on one task at a time.         *)
(***************************************************************************)
EXTENDS Naturals, FiniteSets

CONSTANTS
  Callers,          \* slots for the calls that may be in flight together
  FailureThreshold, \* config.CIRCUIT_BREAKER_FAILURE_THRESHOLD
  RecursionLimit,   \* "recursion_limit" of the agents: supersteps of one loop
  Mockable          \* nodes whose MOCK_..._OUTPUT may be set

Market      == "market_data_agent"
Vibe        == "neighborhood_vibe_agent"
Zoning      == "zoning_law_agent"
Modeler     == "financial_modeler_agent"
Researchers == {Market, Vibe, Zoning}
Agents      == {Vibe, Zoning, Modeler}
Nodes       == Researchers \cup {Modeler}

ASSUME RunAssumption ==
  /\ IsFiniteSet(Callers) /\ Callers # {}
  /\ FailureThreshold \in Nat \ {0}
  /\ RecursionLimit \in Nat \ {0}
  /\ Mockable \subseteq Nodes

VARIABLES
  \* the vendor's breaker: see CircuitBreaker
  state, failures, cooled, claimed, calling, probes, streak, probeLost,
  \* the deployment
  path,    \* the watched vendor and how it is called: "market", "dense" or "hybrid"
  mocked,  \* nodes that answer from a fixture
  \* the task the process works on
  stage,   \* how far it is
  at,      \* how far each node is
  rounds,  \* tool rounds an agent has had
  asked,   \* calls decided on, before_call() still to come
  cause,   \* why the run failed: the watched "vendor" or something "else"
  lost     \* history: calls the vendor really failed since it last answered,
           \* up to the threshold

breakerVars == <<state, failures, cooled, claimed, calling, probes, streak, probeLost>>
runVars     == <<path, mocked, stage, at, rounds, asked, cause>>
vars        == <<breakerVars, runVars, lost>>

Breaker == INSTANCE CircuitBreaker WITH Cancellable <- TRUE

Paths  == {"market", "dense", "hybrid"}
Stages == {"idle", "intake", "supervise", "research", "model", "sync", "ending"}
Active == {"waiting", "thinking", "acting"}

RunTypeOK ==
  /\ path \in Paths
  /\ mocked \subseteq Mockable
  /\ stage \in Stages
  /\ at \in [Nodes -> Active \cup {"done", "raised", "cancelled"}]
  /\ rounds \in [Nodes -> Nat]
  /\ \A n \in Nodes : 2 * rounds[n] <= RecursionLimit
  /\ asked \subseteq Callers
  /\ cause \in {"none", "vendor", "else"}
  /\ lost \in 0..FailureThreshold

TypeOK == Breaker!TypeOK /\ RunTypeOK

Asleep == [n \in Nodes |-> "waiting"]
None   == [n \in Nodes |-> 0]

Init ==
  /\ Breaker!Init
  /\ path \in Paths
  /\ mocked \in SUBSET Mockable
  /\ stage = "idle"
  /\ at = Asleep
  /\ rounds = None
  /\ asked = {}
  /\ cause = "none"
  /\ lost = 0

\* The node whose calls the breaker sees.
Owner == IF path = "market" THEN Market ELSE Zoning

\* The superstep of n is under way.
Runs(n) == stage = IF n = Modeler THEN "model" ELSE "research"

-----------------------------------------------------------------------------
(***************************************************************************)
(* The graph                                                               *)
(***************************************************************************)
SameVendor == UNCHANGED <<breakerVars, lost>>

\* The recorder starts compiledStateGraph on a job it has claimed.
Deliver ==
  /\ stage = "idle"
  /\ stage' = "intake"
  /\ SameVendor
  /\ UNCHANGED <<path, mocked, at, rounds, asked, cause>>

\* ingest_input_agent_node: one model call, or its fixture.
Ingest ==
  /\ stage = "intake"
  /\ stage' = "supervise"
  /\ SameVendor
  /\ UNCHANGED <<path, mocked, at, rounds, asked, cause>>

IngestRaises ==
  /\ stage = "intake"
  /\ stage' = "ending"
  /\ cause' = "else"
  /\ SameVendor
  /\ UNCHANGED <<path, mocked, at, rounds, asked>>

\* supervisor_agent_node calls nothing; behind it all the researchers start.
Supervise ==
  /\ stage = "supervise"
  /\ stage' = "research"
  /\ at' = [at EXCEPT ![Vibe] = "thinking", ![Zoning] = "thinking"]
  /\ SameVendor
  /\ UNCHANGED <<path, mocked, rounds, asked, cause>>

\* The edges of all the researchers into the modeler.
Join ==
  /\ stage = "research"
  /\ \A n \in Researchers : at[n] = "done"
  /\ stage' = "model"
  /\ at' = [at EXCEPT ![Modeler] = "thinking"]
  /\ SameVendor
  /\ UNCHANGED <<path, mocked, rounds, asked, cause>>

Complete ==
  /\ stage = "model"
  /\ at[Modeler] = "done"
  /\ stage' = "ending"
  /\ SameVendor
  /\ UNCHANGED <<path, mocked, at, rounds, asked, cause>>

\* A node raises: what still runs beside it is cancelled.  A search that waits
\* for its thread is not; of those not called yet, some may have theirs.
Fail(n, why) ==
  /\ stage' = "ending"
  /\ at' = [m \in Nodes |-> IF m = n THEN "raised"
                            ELSE IF Runs(m) /\ at[m] \in Active THEN "cancelled"
                            ELSE at[m]]
  /\ rounds' = None
  /\ cause' = why
  /\ IF path = "dense" THEN asked' \in SUBSET asked ELSE asked' = {}
  /\ UNCHANGED <<path, mocked>>

\* Mutant: the event loop is closed without its executor's threads.
EndAtOnce ==
  /\ stage \in {"ending", "sync"}
  /\ stage' = "idle"
  /\ at' = Asleep
  /\ rounds' = None
  /\ cause' = "none"
  /\ SameVendor
  /\ UNCHANGED <<path, mocked, asked>>

\* asyncio.run() returns: it has waited for the cancelled tasks and for the
\* threads of its executor.
End ==
  /\ stage \in {"ending", "sync"}
  /\ asked = {} /\ calling = {}
  /\ stage' = "idle"
  /\ at' = Asleep
  /\ rounds' = None
  /\ cause' = "none"
  /\ SameVendor
  /\ UNCHANGED <<path, mocked, asked>>

\* worker.sync_knowledge_base comes to its upload.
SyncUpload ==
  /\ stage = "idle"
  /\ path # "market"
  /\ stage' = "sync"
  /\ \E c \in Callers : asked' = {c}
  /\ SameVendor
  /\ UNCHANGED <<path, mocked, at, rounds, cause>>

-----------------------------------------------------------------------------
(***************************************************************************)
(* The nodes                                                               *)
(***************************************************************************)
Is(n, s) == Runs(n) /\ n \notin mocked /\ at[n] = s
Goto(n, s) == at' = [at EXCEPT ![n] = s]

\* The fixture, in place of all that follows.
Mock(n) ==
  /\ n \in mocked
  /\ Runs(n)
  /\ at[n] \in Active
  /\ Goto(n, "done")
  /\ SameVendor
  /\ UNCHANGED <<path, mocked, stage, rounds, asked, cause>>

\* fetch_market_metrics finds the location in the cache; or its vendor, not
\* being the one watched, answers.
Hit ==
  /\ Is(Market, "waiting")
  /\ Goto(Market, "thinking")
  /\ SameVendor
  /\ UNCHANGED <<path, mocked, stage, rounds, asked, cause>>

Miss ==
  /\ Is(Market, "waiting")
  /\ path = "market"
  /\ Goto(Market, "acting")
  /\ \E c \in Callers : asked' = {c}
  /\ SameVendor
  /\ UNCHANGED <<path, mocked, stage, rounds, cause>>

\* The market node's classification.
Classify ==
  /\ Is(Market, "thinking")
  /\ Goto(Market, "done")
  /\ SameVendor
  /\ UNCHANGED <<path, mocked, stage, rounds, asked, cause>>

\* The model answers, and its answer is the node's output.  A model turn and a
\* round of tools are a superstep each.
Answer(n) ==
  /\ Is(n, "thinking")
  /\ 2 * rounds[n] < RecursionLimit
  /\ Goto(n, "done")
  /\ rounds' = [rounds EXCEPT ![n] = 0]
  /\ SameVendor
  /\ UNCHANGED <<path, mocked, stage, asked, cause>>

\* Mutant: no limit.
AskForEver(n, searches) ==
  /\ Is(n, "thinking")
  /\ searches # {} => n = Owner
  /\ Goto(n, "acting")
  /\ asked' = asked \cup searches
  /\ SameVendor
  /\ UNCHANGED <<rounds, path, mocked, stage, cause>>

\* The model asks for tools, among them some searches of the watched vendor.
Ask(n, searches) ==
  /\ Is(n, "thinking")
  /\ 2 * rounds[n] + 1 < RecursionLimit
  /\ searches # {} => n = Owner
  /\ Goto(n, "acting")
  /\ rounds' = [rounds EXCEPT ![n] = @ + 1]
  /\ asked' = asked \cup searches
  /\ SameVendor
  /\ UNCHANGED <<path, mocked, stage, cause>>

\* GraphRecursionError: the model asks once more and there is no room for the
\* tools, or none for another turn.
OutOfSteps(n) ==
  /\ Is(n, "thinking")
  /\ 2 * rounds[n] + 1 >= RecursionLimit
  /\ Fail(n, "else")
  /\ SameVendor

\* All the tools of a round have returned, what went wrong in them included.
Act(n) ==
  /\ Is(n, "acting")
  /\ n = Owner => asked = {} /\ calling = {}
  /\ Goto(n, "thinking")
  /\ SameVendor
  /\ UNCHANGED <<path, mocked, stage, rounds, asked, cause>>

\* The language model fails, a tool or its construction raises, the answer
\* does not fit the schema, a vendor rejects the request.
Raise(n) ==
  /\ \E s \in Active : Is(n, s)
  /\ n = Market => at[n] # "acting"
  /\ Fail(n, "else")
  /\ SameVendor

-----------------------------------------------------------------------------
(***************************************************************************)
(* The calls                                                               *)
(***************************************************************************)
Refuses ==
  \/ state = "open" /\ ~cooled
  \/ state = "half_open" /\ claimed

Call(c) ==
  /\ c \in asked
  /\ Breaker!Call(c)
  /\ asked' = asked \ {c}
  /\ UNCHANGED <<path, mocked, stage, at, rounds, cause, lost>>

\* Mutant: the outcome of a call that was not made is recorded too.
RefusedRecorded(c) ==
  /\ c \in asked
  /\ Refuses
  /\ IF path = "market" /\ stage = "research" THEN Fail(Market, "vendor")
     ELSE /\ asked' = asked \ {c}
          /\ UNCHANGED <<path, mocked, stage, at, rounds, cause>>
  /\ Breaker!RecordFailure
  /\ UNCHANGED <<calling, probes, probeLost, lost>>

\* before_call() raises: a 503 that fails the market node; a degraded message
\* for the zoning agent, which goes on; an error that ends the sync.
Refused(c) ==
  /\ c \in asked
  /\ Refuses
  /\ IF path = "market" THEN Fail(Market, "vendor")
     ELSE /\ asked' = asked \ {c}
          /\ UNCHANGED <<path, mocked, stage, at, rounds, cause>>
  /\ SameVendor

\* Somebody is there to record the outcome of a call.
Heard == path = "dense" \/ at[Owner] # "cancelled"

OneMoreLost == lost' = IF lost < FailureThreshold THEN lost + 1 ELSE lost

Answered(c) ==
  /\ Heard
  /\ Breaker!Succeed(c)
  /\ lost' = 0
  /\ UNCHANGED runVars

\* Mutant: the dense-only tool, too, takes a failure for an answer.
FailedSilently(c) ==
  /\ Heard
  /\ IF path = "dense" THEN Breaker!Succeed(c) ELSE Breaker!Fail(c)
  /\ OneMoreLost
  /\ IF path = "market" THEN Fail(Market, "vendor") ELSE UNCHANGED runVars

\* The vendor fails the call: the market node raises what its client raised,
\* the search tools tell their agent.
Failed(c) ==
  /\ Heard
  /\ Breaker!Fail(c)
  /\ OneMoreLost
  /\ IF path = "market" THEN Fail(Market, "vendor") ELSE UNCHANGED runVars

\* The hybrid tool takes an exception without a text for no exception.
FailedWithoutText(c) ==
  /\ path = "hybrid" /\ stage # "sync"
  /\ Heard
  /\ Breaker!Succeed(c)
  /\ OneMoreLost
  /\ UNCHANGED runVars

\* Mutant: a search is cancelled in its thread.
AbandonThread(c) ==
  /\ at[Owner] \in {"cancelled", "raised"}
  /\ Breaker!Cancel(c)
  /\ UNCHANGED <<runVars, lost>>

\* The coroutine that waits for the vendor is cancelled, beside a node that
\* raised or beside another tool of its own agent.
Abandon(c) ==
  /\ path # "dense"
  /\ at[Owner] \in {"cancelled", "raised"}
  /\ Breaker!Cancel(c)
  /\ UNCHANGED <<runVars, lost>>

Cool == Breaker!Cool /\ UNCHANGED <<runVars, lost>>

-----------------------------------------------------------------------------
Progress == Deliver \/ Ingest \/ Supervise \/ Join \/ Complete \/ End

Advance(n) ==
  \/ n = Market /\ (Hit \/ Miss \/ Classify)
  \/ n \in Agents /\ (Answer(n) \/ OutOfSteps(n) \/ \E s \in SUBSET Callers : Ask(n, s))
  \/ Act(n)
  \/ Mock(n)

Outcome(c) == Answered(c) \/ Failed(c) \/ FailedWithoutText(c) \/ Abandon(c)

Next ==
  \/ Progress \/ IngestRaises \/ SyncUpload \/ Cool
  \/ \E n \in Nodes : Advance(n) \/ Raise(n)
  \/ \E c \in Callers : Call(c) \/ Refused(c) \/ Outcome(c)

Spec == Init /\ [][Next]_vars

\* Time passes, jobs keep coming, models, tools and vendors return or time out,
\* and it is not in every run that a sibling raises in the moment between the
\* decision to call the vendor and the call.
FairSpec ==
  /\ Spec
  /\ WF_vars(Cool)
  /\ WF_vars(Progress)
  /\ \A n \in Nodes : WF_vars(Advance(n))
  /\ \A c \in Callers : WF_vars(Call(c) \/ Refused(c)) /\ WF_vars(Outcome(c))
  /\ SF_vars(\E c \in Callers : Call(c))

-----------------------------------------------------------------------------
(***************************************************************************)
(* What holds                                                              *)
(***************************************************************************)

\* However runs, cancellations and syncs use it, the breaker goes through the
\* behaviours CircuitBreaker describes and no others: nothing but a call that it
\* admitted reports an outcome, and that once.
BreakerSpec == Breaker!Spec

\* CircuitBreaker's promises, for a breaker that outlives the runs.
OneProbePerPeriod == Breaker!OneProbePerPeriod
OpenAfterAStreak == Breaker!OpenAfterAStreak

\* What the states of the breaker mean to the runs that read them: HALF_OPEN that
\* one probe is out or lost, OPEN and CLOSED how the vendor has done lately.
BreakerSafety == OneProbePerPeriod /\ OpenAfterAStreak

LateFailuresKeepTheClock == Breaker!LateFailuresKeepTheClock

\* A vendor that runs keep asking for is called again and again, through every
\* outage, unless a probe was lost with the task that made it.
VendorIsRetried == []<>(asked # {}) => []<>(calling # {} \/ probeLost)

\* No call outlives the node that waits for it, and none its run, except a
\* search whose thread a failed run's event loop still waits for: the modeler
\* and the next run of the process start with nobody on the line.
NoStrayCalls ==
  asked # {} \/ calling # {} =>
    \/ stage = "sync"
    \/ stage = "research" /\ at[Owner] = "acting"
    \/ stage = "ending" /\ at[Owner] \in {"raised", "cancelled"}

\* A half-open breaker without a probe in flight refuses every call from then
\* on: it takes a probe made by a coroutine that was cancelled.  A search in a
\* thread always reports back.
ProbeIsLostByCancellation ==
  state = "half_open" => calling # {} \/ (probeLost /\ path # "dense")

\* What the breaker counts is what the vendor did: as many failures in a row as
\* it really had, or, through the hybrid tool, which takes an exception without
\* a text for an answer, perhaps fewer, but never more.
RecordedIsReal == streak <= lost /\ (path # "hybrid" => streak = lost)

\* "The model adapts in-band instead of the graph crashing"
\* (ARCHITECTURE.md:232): an outage of Pinecone, or its open breaker, fails no
\* run; one of RapidAPI does.
OnlyTheMarketVendorFailsARun == cause = "vendor" => path = "market"

\* "Every agent loop has a step limit" (README.md:121): whatever the models ask
\* for, and whatever is cancelled where, every task of the process ends.
RunEnds == stage # "idle" ~> stage = "idle"

\* before_call(): callers "report the outcome via record_success()/
\* record_failure()" (circuit_breaker.py:82-84).  Not so: see
\* ProbeIsLostByCancellation.
ProbesReportBack == state = "half_open" => calling # {}
=============================================================================
