-------------------------- MODULE ResearchRunProofs --------------------------
(***************************************************************************)
(* ResearchRun for any number of calls side by side, any threshold, any    *)
(* step limit and any set of mocked nodes.  Its steps are steps of the     *)
(* breaker or leave it alone, so that the breaker's theorems hold of a     *)
(* process; where a call can be follows from who may make one.             *)
(***************************************************************************)
EXTENDS ResearchRun, TLAPS

B == INSTANCE CircuitBreakerProofs WITH Cancellable <- TRUE

LEMMA NoCallByTheModeler == Owner \in Researchers /\ Owner # Modeler /\ Owner \in Nodes
  BY DEF Owner, Researchers, Nodes, Market, Vibe, Zoning, Modeler

LEMMA BreakerAssumption == B!ConstantsAssumption
  BY RunAssumption DEF B!ConstantsAssumption, IsFiniteSet, B!IsFiniteSet

LEMMA SameCardinality == \A S : B!Cardinality(S) = Breaker!Cardinality(S)
  BY Zenon DEF Breaker!Cardinality, B!Cardinality

\* The breaker of a worker process goes through the behaviours of
\* CircuitBreaker: a refusal, a cancelled decision and all that the run does
\* beside its calls leave it as it is.
THEOREM ImplementsCircuitBreaker == Spec => BreakerSpec
<1>1. Init => Breaker!Init
  BY DEF Init
<1>2. [Next]_vars => [Breaker!Next]_(Breaker!vars)
  <2> SUFFICES ASSUME [Next]_vars
               PROVE  Breaker!Next \/ UNCHANGED Breaker!vars
    OBVIOUS
  <2>1. CASE Progress \/ IngestRaises \/ SyncUpload
    BY <2>1 DEF Progress, Deliver, Ingest, Supervise, Join, Complete, End,
         IngestRaises, SyncUpload, SameVendor, breakerVars,
         Breaker!vars, Breaker!breaker, Breaker!history
  <2>2. CASE Cool
    BY <2>2 DEF Cool, Breaker!Next
  <2>3. ASSUME NEW n \in Nodes, Advance(n) \/ Raise(n)
        PROVE  UNCHANGED Breaker!vars
    BY <2>3 DEF Advance, Hit, Miss, Classify, Answer, Ask, OutOfSteps, Act, Mock,
         Raise, SameVendor, breakerVars,
         Breaker!vars, Breaker!breaker, Breaker!history
  <2>4. ASSUME NEW c \in Callers, Call(c)
        PROVE  Breaker!Next
    BY <2>4 DEF Call, Breaker!Next
  <2>5. ASSUME NEW c \in Callers, Refused(c)
        PROVE  UNCHANGED Breaker!vars
    BY <2>5 DEF Refused, SameVendor, breakerVars,
         Breaker!vars, Breaker!breaker, Breaker!history
  <2>6. ASSUME NEW c \in Callers, Outcome(c)
        PROVE  Breaker!Next
    BY <2>6 DEF Outcome, Answered, Failed, FailedWithoutText, Abandon,
         Breaker!Next, Breaker!End
  <2>7. CASE UNCHANGED vars
    BY <2>7 DEF vars, breakerVars, Breaker!vars, Breaker!breaker, Breaker!history
  <2>8. QED
    BY <2>1, <2>2, <2>3, <2>4, <2>5, <2>6, <2>7 DEF Next
<1>3. QED
  BY <1>1, <1>2, PTL DEF Spec, BreakerSpec, Breaker!Spec

LEMMA SameBreaker == BreakerSpec => B!Spec
<1>1. Breaker!Init => B!Init
  BY DEF Breaker!Init, B!Init
<1>2. (UNCHANGED Breaker!vars) => UNCHANGED B!vars
  BY DEF Breaker!vars, B!vars, Breaker!breaker, B!breaker, Breaker!history, B!history
<1>3. [Breaker!Next]_(Breaker!vars) => [B!Next]_(B!vars)
  <2>1. Breaker!Cool = B!Cool
    BY DEF Breaker!Cool, B!Cool, Breaker!history, B!history
  <2>2. ASSUME NEW c \in Callers
        PROVE  /\ Breaker!Call(c) = B!Call(c)
               /\ Breaker!End(c) = B!End(c)
               /\ Breaker!Cancel(c) = B!Cancel(c)
    BY DEF Breaker!Call, B!Call, Breaker!End, B!End, Breaker!Cancel, B!Cancel,
         Breaker!Admit, B!Admit, Breaker!AdmitProbe, B!AdmitProbe,
         Breaker!Succeed, B!Succeed, Breaker!Fail, B!Fail,
         Breaker!RecordSuccess, B!RecordSuccess, Breaker!RecordFailure, B!RecordFailure,
         Breaker!Return, B!Return, Breaker!Trip, B!Trip, Breaker!Lengthen, B!Lengthen,
         Breaker!HalfOpen, B!HalfOpen, Breaker!breaker, B!breaker,
         Breaker!history, B!history
  <2>3. QED
    BY <1>2, <2>1, <2>2 DEF Breaker!Next, B!Next
<1>4. QED
  BY <1>1, <1>2, <1>3, PTL DEF BreakerSpec, Breaker!Spec, B!Spec

-----------------------------------------------------------------------------
\* One probe at a time is let through a half-open breaker of the process,
\* however many searches an agent asks for at once.
THEOREM OneProbe == Spec => []OneProbePerPeriod
<1>1. B!Spec => []B!OneProbePerPeriod
  BY BreakerAssumption, B!OneProbe
<1>2. B!OneProbePerPeriod => OneProbePerPeriod
  BY DEF OneProbePerPeriod, Breaker!OneProbePerPeriod, B!OneProbePerPeriod
<1>3. QED
  BY <1>1, <1>2, ImplementsCircuitBreaker, SameBreaker, PTL

\* The breaker of the process opens on FailureThreshold failures with no success
\* between them, whichever runs they belong to.
THEOREM OpensOnAStreak == Spec => []OpenAfterAStreak
<1>1. B!Spec => []B!OpenAfterAStreak
  BY BreakerAssumption, B!OpensOnAStreak
<1>2. B!OpenAfterAStreak => OpenAfterAStreak
  BY DEF OpenAfterAStreak, Breaker!OpenAfterAStreak, B!OpenAfterAStreak
<1>3. QED
  BY <1>1, <1>2, ImplementsCircuitBreaker, SameBreaker, PTL

\* What CLOSED, OPEN and HALF_OPEN say of the vendor and of the probe is so, for
\* the breaker that all runs of the process share.
THEOREM BreakerSafetyHolds == Spec => []BreakerSafety
  BY OneProbe, OpensOnAStreak, PTL DEF BreakerSafety

\* With no more calls side by side than the threshold, late failures do not put
\* off the probe.
THEOREM LateFailures == Spec => []LateFailuresKeepTheClock
<1>1. B!Spec => []B!LateFailuresKeepTheClock
  BY BreakerAssumption, B!LateFailures
<1>2. B!LateFailuresKeepTheClock => LateFailuresKeepTheClock
  BY SameCardinality DEF LateFailuresKeepTheClock,
       Breaker!LateFailuresKeepTheClock, B!LateFailuresKeepTheClock
<1>3. QED
  BY <1>1, <1>2, ImplementsCircuitBreaker, SameBreaker, PTL

LEMMA BreakerTypes == Spec => []Breaker!TypeOK
<1>1. B!Spec => []B!TypeOK
  BY BreakerAssumption, B!TypeCorrect
<1>2. B!TypeOK => Breaker!TypeOK
  BY DEF Breaker!TypeOK, B!TypeOK
<1>3. QED
  BY <1>1, <1>2, ImplementsCircuitBreaker, SameBreaker, PTL

-----------------------------------------------------------------------------
\* What Fail(n, why) keeps of the types.
LEMMA FailTypes ==
  ASSUME RunTypeOK, NEW n \in Nodes, NEW why \in {"vendor", "else"}, Fail(n, why)
  PROVE  /\ path' \in Paths
         /\ mocked' \subseteq Mockable
         /\ stage' \in Stages
         /\ at' \in [Nodes -> Active \cup {"done", "raised", "cancelled"}]
         /\ rounds' \in [Nodes -> Nat]
         /\ \A m \in Nodes : 2 * rounds'[m] <= RecursionLimit
         /\ asked' \subseteq Callers
         /\ cause' \in {"none", "vendor", "else"}
<1>1. at' \in [Nodes -> Active \cup {"done", "raised", "cancelled"}]
  BY DEF Fail, RunTypeOK
<1>2. rounds' \in [Nodes -> Nat] /\ \A m \in Nodes : 2 * rounds'[m] <= RecursionLimit
  BY RunAssumption DEF Fail, None
<1>3. asked' \subseteq Callers
  BY DEF Fail, RunTypeOK
<1>4. QED
  BY <1>1, <1>2, <1>3 DEF Fail, RunTypeOK, Stages

LEMMA RunTypes == Spec => []RunTypeOK
<1>1. Init => RunTypeOK
  BY RunAssumption DEF Init, RunTypeOK, Stages, Asleep, None, Active
<1>2. RunTypeOK /\ [Next]_vars => RunTypeOK'
  <2> SUFFICES ASSUME RunTypeOK, [Next]_vars
               PROVE  RunTypeOK'
    OBVIOUS
  <2>0. Market \in Nodes /\ Agents \subseteq Nodes /\ Owner \in Nodes
    BY NoCallByTheModeler DEF Nodes, Agents, Researchers
  <2>1. CASE Progress \/ IngestRaises \/ SyncUpload
    <3>1. /\ path' \in Paths /\ mocked' \subseteq Mockable
          /\ lost' \in 0..FailureThreshold
          /\ stage' \in Stages
          /\ cause' \in {"none", "vendor", "else"}
          /\ asked' \subseteq Callers
      BY <2>1 DEF RunTypeOK, Progress, Deliver, Ingest, Supervise, Join, Complete, End,
           IngestRaises, SyncUpload, SameVendor, Stages
    <3>2. at' \in [Nodes -> Active \cup {"done", "raised", "cancelled"}]
      BY <2>1 DEF RunTypeOK, Progress, Deliver, Ingest, Supervise, Join, Complete, End,
           IngestRaises, SyncUpload, Asleep, Active
    <3>3. rounds' \in [Nodes -> Nat] /\ \A n \in Nodes : 2 * rounds'[n] <= RecursionLimit
      BY <2>1, RunAssumption DEF RunTypeOK, Progress, Deliver, Ingest, Supervise, Join,
           Complete, End, IngestRaises, SyncUpload, None
    <3>4. QED
      BY <3>1, <3>2, <3>3 DEF RunTypeOK
  <2>2. CASE Cool
    BY <2>2 DEF Cool, runVars, RunTypeOK
  <2>3. ASSUME NEW n \in Nodes,
               (n = Market /\ (Hit \/ Miss \/ Classify)) \/ Act(n) \/ Mock(n)
        PROVE  RunTypeOK'
    BY <2>3, <2>0 DEF RunTypeOK, Hit, Miss, Classify, Act, Mock, Goto, SameVendor, Active
  <2>4. ASSUME NEW n \in Nodes, Answer(n)
        PROVE  RunTypeOK'
    BY <2>4, RunAssumption DEF RunTypeOK, Answer, Goto, SameVendor
  <2>5. ASSUME NEW n \in Nodes, NEW s \in SUBSET Callers, Ask(n, s)
        PROVE  RunTypeOK'
    <3>1. \A m \in Nodes : 2 * rounds'[m] <= RecursionLimit
      BY <2>5, RunAssumption DEF Ask, RunTypeOK
    <3>2. QED
      BY <2>5, <3>1 DEF RunTypeOK, Ask, Goto, SameVendor, Active
  <2>6. ASSUME NEW n \in Nodes, OutOfSteps(n) \/ Raise(n)
        PROVE  RunTypeOK'
    <3>1. Fail(n, "else") /\ lost' = lost
      BY <2>6 DEF OutOfSteps, Raise, SameVendor
    <3>2. QED
      BY <3>1, FailTypes DEF RunTypeOK
  <2>7. ASSUME NEW c \in Callers, Call(c) \/ Abandon(c)
        PROVE  RunTypeOK'
    BY <2>7 DEF RunTypeOK, Call, Abandon, runVars
  <2>8. ASSUME NEW c \in Callers, Refused(c)
        PROVE  RunTypeOK'
    BY <2>8, <2>0, FailTypes DEF RunTypeOK, Refused, SameVendor
  <2>9. ASSUME NEW c \in Callers, Answered(c) \/ Failed(c) \/ FailedWithoutText(c)
        PROVE  RunTypeOK'
    <3>1. lost' \in 0..FailureThreshold
      BY <2>9, RunAssumption DEF RunTypeOK, Answered, Failed, FailedWithoutText, OneMoreLost
    <3>2. Fail(Market, "vendor") \/ UNCHANGED runVars
      BY <2>9 DEF Answered, Failed, FailedWithoutText
    <3>3. QED
      BY <2>0, <3>1, <3>2, FailTypes DEF RunTypeOK, runVars
  <2>10. CASE UNCHANGED vars
    BY <2>10 DEF vars, runVars, RunTypeOK
  <2>11. QED
    BY <2>1, <2>2, <2>3, <2>4, <2>5, <2>6, <2>7, <2>8, <2>9, <2>10
    DEF Next, Advance, Outcome
<1>3. QED
  BY <1>1, <1>2, PTL DEF Spec

\* The process's bookkeeping stays in its ranges; above all, an agent's tool
\* rounds within its step limit.
THEOREM TypeCorrect == Spec => []TypeOK
<1>1. Breaker!TypeOK /\ RunTypeOK => TypeOK
  BY DEF TypeOK
<1>2. QED
  BY <1>1, BreakerTypes, RunTypes, PTL

-----------------------------------------------------------------------------
\* NoStrayCalls, and what keeps it: only the zoning agent's path is shared with
\* the sync, and a node that answers from a fixture never waits for a tool.
CallsHaveOwners ==
  /\ NoStrayCalls
  /\ stage = "sync" => path # "market"
  /\ \A n \in mocked \cap Nodes : at[n] # "acting"

\* A node that raises takes the owner of every call with it.
LEMMA FailKeepsOwners ==
  ASSUME RunTypeOK, CallsHaveOwners, NEW n \in Nodes, NEW why, Fail(n, why),
         calling' \subseteq calling, stage # "sync"
  PROVE  CallsHaveOwners'
<1>1. Owner' = Owner /\ Owner \in Nodes /\ Owner # Modeler
  BY NoCallByTheModeler DEF Fail, Owner
<1>2. asked' \subseteq asked
  BY DEF Fail
<1>3. ASSUME asked' # {} \/ calling' # {}
      PROVE  at'[Owner] \in {"raised", "cancelled"}
  <2>1. \/ stage = "research" /\ at[Owner] = "acting"
        \/ at[Owner] \in {"raised", "cancelled"}
    BY <1>2, <1>3 DEF CallsHaveOwners, NoStrayCalls
  <2>2. at'[Owner] = IF Owner = n THEN "raised"
                     ELSE IF Runs(Owner) /\ at[Owner] \in Active THEN "cancelled"
                     ELSE at[Owner]
    BY <1>1 DEF Fail
  <2>3. QED
    BY <1>1, <2>1, <2>2 DEF Runs, Active
<1>4. stage' = "ending" /\ mocked' = mocked
  BY DEF Fail
<1>5. \A m \in mocked' \cap Nodes : at'[m] # "acting"
  BY <1>4 DEF Fail, CallsHaveOwners
<1>6. QED
  BY <1>1, <1>3, <1>4, <1>5 DEF CallsHaveOwners, NoStrayCalls

LEMMA OwnersInv == Spec => []CallsHaveOwners
<1>1. Init => CallsHaveOwners
  BY DEF Init, Breaker!Init, CallsHaveOwners, NoStrayCalls, Asleep
<1>2. RunTypeOK /\ CallsHaveOwners /\ [Next]_vars => CallsHaveOwners'
  <2> SUFFICES ASSUME RunTypeOK, CallsHaveOwners, [Next]_vars
               PROVE  CallsHaveOwners'
    OBVIOUS
  <2>0. Owner \in Nodes /\ Owner # Modeler /\ Owner \in Researchers
    BY NoCallByTheModeler
  <2> USE DEF CallsHaveOwners, NoStrayCalls
  <2>1. CASE Progress \/ IngestRaises \/ SyncUpload
    <3>1. Owner' = Owner /\ mocked' = mocked /\ calling' = calling
      BY <2>1 DEF Progress, Deliver, Ingest, Supervise, Join, Complete, End,
           IngestRaises, SyncUpload, SameVendor, breakerVars, Owner
    <3>2. \A n \in mocked' \cap Nodes : at'[n] # "acting"
      BY <2>1, <3>1 DEF RunTypeOK, Progress, Deliver, Ingest, Supervise, Join, Complete,
           End, IngestRaises, SyncUpload, Asleep
    <3>3. stage' = "sync" => path' # "market"
      BY <2>1 DEF Progress, Deliver, Ingest, Supervise, Join, Complete, End,
           IngestRaises, SyncUpload
    <3>4. CASE SyncUpload
      BY <3>1, <3>2, <3>3, <3>4 DEF SyncUpload
    <3>5. CASE End
      BY <3>1, <3>2, <3>3, <3>5 DEF End
    <3>6. CASE Deliver \/ Ingest \/ Supervise \/ Join \/ Complete \/ IngestRaises
      <4>1. asked' = asked /\ asked = {} /\ calling = {}
        BY <2>0, <3>6 DEF Deliver, Ingest, Supervise, Join, Complete, IngestRaises
      <4>2. QED
        BY <3>1, <3>2, <3>3, <4>1
    <3>7. QED
      BY <2>1, <3>4, <3>5, <3>6 DEF Progress
  <2>2. CASE Cool
    BY <2>2 DEF Cool, Breaker!Cool, runVars, Owner
  <2>3. ASSUME NEW n \in Nodes, Advance(n)
        PROVE  CallsHaveOwners'
    <3>1. CASE OutOfSteps(n)
      <4>1. Fail(n, "else") /\ calling' = calling /\ stage # "sync"
        BY <3>1 DEF OutOfSteps, SameVendor, breakerVars, Is, Runs
      <4>2. QED
        BY <4>1, FailKeepsOwners
    <3>2. CASE ~OutOfSteps(n)
      <4>1. /\ Runs(n) /\ at[n] \in Active
            /\ Owner' = Owner /\ mocked' = mocked /\ calling' = calling
            /\ stage' = stage /\ path' = path
        BY <2>3, <3>2 DEF Advance, Hit, Miss, Classify, Answer, Ask, Act, Mock, Is,
             Active, SameVendor, breakerVars, Owner
      <4>2. \E s \in Active \cup {"done"} :
               at' = [at EXCEPT ![n] = s] /\ (s = "acting" => n \notin mocked)
        BY <2>3, <3>2 DEF Advance, Hit, Miss, Classify, Answer, Ask, Act, Mock, Is,
             Goto, Active
      <4>3. \A m \in mocked' \cap Nodes : at'[m] # "acting"
        BY <4>1, <4>2 DEF RunTypeOK
      <4>4. CASE n # Owner
        <5>1. asked' = asked /\ at'[Owner] = at[Owner]
          BY <2>3, <3>2, <4>2, <4>4, <2>0
          DEF Advance, Hit, Miss, Classify, Answer, Ask, Act, Mock, Is, RunTypeOK, Owner
        <5>2. QED
          BY <4>1, <4>3, <5>1
      <4>5. CASE n = Owner
        <5>1. CASE at'[n] = "acting"
          <6>1. stage' = "research"
            BY <2>0, <4>1, <4>5 DEF Runs
          <6>2. QED
            BY <4>1, <4>3, <4>5, <5>1, <6>1
        <5>2. CASE at'[n] # "acting"
          <6>1. asked' = {} /\ calling = {}
            BY <2>3, <3>2, <4>1, <4>5, <5>2, <2>0
            DEF Advance, Hit, Miss, Classify, Answer, Ask, Act, Mock, Is, Goto,
                RunTypeOK, Runs, Active
          <6>2. QED
            BY <4>1, <4>3, <6>1
        <5>3. QED
          BY <5>1, <5>2
      <4>6. QED
        BY <4>4, <4>5
    <3>3. QED
      BY <3>1, <3>2
  <2>4. ASSUME NEW n \in Nodes, Raise(n)
        PROVE  CallsHaveOwners'
    <3>1. Fail(n, "else") /\ calling' = calling /\ stage # "sync"
      BY <2>4 DEF Raise, SameVendor, breakerVars, Is, Runs
    <3>2. QED
      BY <3>1, FailKeepsOwners
  <2>5. ASSUME NEW c \in Callers, Call(c)
        PROVE  CallsHaveOwners'
    BY <2>5 DEF Call, Owner
  <2>6. ASSUME NEW c \in Callers,
               \/ Refused(c) \/ Outcome(c)
        PROVE  CallsHaveOwners'
    <3>1. c \in asked \/ c \in calling
      BY <2>6 DEF Refused, Outcome, Answered, Failed, FailedWithoutText, Abandon,
           Breaker!Succeed, Breaker!Fail, Breaker!Cancel, Breaker!Return
    <3>2. calling' \subseteq calling
      BY <2>6 DEF Refused, Outcome, Answered, Failed, FailedWithoutText, Abandon,
           Breaker!Succeed, Breaker!Fail, Breaker!Cancel, Breaker!Return,
           SameVendor, breakerVars
    <3>3. CASE Fail(Market, "vendor") /\ path = "market"
      <4>1. stage # "sync" /\ Market \in Nodes
        BY <3>3 DEF Nodes, Researchers
      <4>2. QED
        BY <3>2, <3>3, <4>1, FailKeepsOwners
    <3>4. CASE asked' \subseteq asked /\ UNCHANGED <<path, mocked, stage, at, rounds, cause>>
      BY <3>2, <3>4 DEF Owner
    <3>5. QED
      BY <2>6, <3>3, <3>4 DEF Refused, Outcome, Answered, Failed, FailedWithoutText,
           Abandon, runVars
  <2>7. CASE UNCHANGED vars
    BY <2>7 DEF vars, breakerVars, runVars, Owner
  <2>8. QED
    BY <2>1, <2>2, <2>3, <2>4, <2>5, <2>6, <2>7 DEF Next
<1>3. QED
  BY <1>1, <1>2, RunTypes, PTL DEF Spec

\* No vendor call outlives the node that waits for it, and none its run, but a
\* thread's, which the event loop of the failed run waits for.
THEOREM NoStrayCallsHolds == Spec => []NoStrayCalls
<1>1. CallsHaveOwners => NoStrayCalls
  BY DEF CallsHaveOwners
<1>2. QED
  BY <1>1, OwnersInv, PTL

-----------------------------------------------------------------------------
\* What a step does to the breaker's half-open period and to the history of
\* failures, whatever else it does.
LEMMA BreakerSteps ==
  ASSUME [Next]_vars
  PROVE  \/ UNCHANGED <<breakerVars, path, lost>>
         \/ path' = path /\ lost' = lost /\ Breaker!Cool
         \/ path' = path /\ lost' = lost /\ \E c \in Callers : Breaker!Call(c)
         \/ path' = path /\ lost' = 0 /\ \E c \in Callers : Breaker!Succeed(c)
         \/ path' = path /\ OneMoreLost /\ \E c \in Callers : Breaker!Fail(c)
         \/ path' = path /\ OneMoreLost /\ path = "hybrid"
            /\ \E c \in Callers : Breaker!Succeed(c)
         \/ path' = path /\ lost' = lost /\ path # "dense"
            /\ \E c \in Callers : Breaker!Cancel(c)
<1>1. CASE Progress \/ IngestRaises \/ SyncUpload
  BY <1>1 DEF Progress, Deliver, Ingest, Supervise, Join, Complete, End,
       IngestRaises, SyncUpload, SameVendor
<1>2. CASE Cool
  BY <1>2 DEF Cool, runVars
<1>3. ASSUME NEW n \in Nodes, Advance(n) \/ Raise(n)
      PROVE  UNCHANGED <<breakerVars, path, lost>>
  BY <1>3 DEF Advance, Hit, Miss, Classify, Answer, Ask, OutOfSteps, Act, Mock,
       Raise, Fail, SameVendor
<1>4. ASSUME NEW c \in Callers, Call(c)
      PROVE  path' = path /\ lost' = lost /\ Breaker!Call(c)
  BY <1>4 DEF Call
<1>5. ASSUME NEW c \in Callers, Refused(c)
      PROVE  UNCHANGED <<breakerVars, path, lost>>
  BY <1>5 DEF Refused, Fail, SameVendor
<1>6. ASSUME NEW c \in Callers, Answered(c)
      PROVE  path' = path /\ lost' = 0 /\ Breaker!Succeed(c)
  BY <1>6 DEF Answered, runVars
<1>7. ASSUME NEW c \in Callers, Failed(c)
      PROVE  path' = path /\ OneMoreLost /\ Breaker!Fail(c)
  BY <1>7 DEF Failed, Fail, runVars
<1>8. ASSUME NEW c \in Callers, FailedWithoutText(c)
      PROVE  path' = path /\ OneMoreLost /\ path = "hybrid" /\ Breaker!Succeed(c)
  BY <1>8 DEF FailedWithoutText, runVars
<1>9. ASSUME NEW c \in Callers, Abandon(c)
      PROVE  path' = path /\ lost' = lost /\ path # "dense" /\ Breaker!Cancel(c)
  BY <1>9 DEF Abandon, runVars
<1>10. CASE UNCHANGED vars
  BY <1>10 DEF vars, runVars
<1>11. QED
  BY <1>1, <1>2, <1>3, <1>4, <1>5, <1>6, <1>7, <1>8, <1>9, <1>10 DEF Next, Outcome

\* The half-open breaker's probe is either in flight or lost, and only the
\* coroutines lose one.
ProbeInv ==
  /\ state = "half_open" => \E c \in Callers : probes = {c} /\ (c \in calling \/ probeLost)
  /\ probeLost => path # "dense"

\* A half-open breaker that waits for nobody has lost its probe to a
\* cancellation; the dense-only tool, whose search runs in a thread, never
\* leaves it so.
THEOREM ProbeIsLostByCancellationHolds == Spec => []ProbeIsLostByCancellation
<1>1. Init => ProbeInv
  BY DEF Init, Breaker!Init, ProbeInv
<1>2. OneProbePerPeriod /\ ProbeInv /\ [Next]_vars => ProbeInv'
  <2> SUFFICES ASSUME OneProbePerPeriod, ProbeInv, [Next]_vars
               PROVE  ProbeInv'
    OBVIOUS
  <2> USE DEF ProbeInv
  <2>1. CASE UNCHANGED <<breakerVars, path, lost>>
    BY <2>1 DEF breakerVars
  <2>2. CASE path' = path /\ Breaker!Cool
    BY <2>2 DEF Breaker!Cool, Breaker!history
  <2>3. ASSUME NEW c \in Callers, path' = path, Breaker!Call(c)
        PROVE  ProbeInv'
    <3>1. CASE Breaker!Admit(c)
      BY <2>3, <3>1 DEF Breaker!Admit, Breaker!breaker, Breaker!history
    <3>2. CASE Breaker!AdmitProbe(c)
      <4>1. state = "open"
        BY <3>2 DEF Breaker!AdmitProbe, Breaker!HalfOpen, OneProbePerPeriod,
             Breaker!OneProbePerPeriod
      <4>2. probes' = {c} /\ c \in calling' /\ probeLost' = probeLost
        BY <3>2, <4>1 DEF Breaker!AdmitProbe
      <4>3. QED
        BY <2>3, <4>2
    <3>3. QED
      BY <2>3, <3>1, <3>2 DEF Breaker!Call
  <2>4. ASSUME NEW c \in Callers, path' = path, Breaker!Succeed(c)
        PROVE  ProbeInv'
    BY <2>4 DEF Breaker!Succeed, Breaker!RecordSuccess
  <2>5. ASSUME NEW c \in Callers, path' = path, Breaker!Fail(c)
        PROVE  ProbeInv'
    <3>1. state' # "half_open" /\ probeLost' = probeLost
      BY <2>5 DEF Breaker!Fail, Breaker!RecordFailure, Breaker!Trip
    <3>2. QED
      BY <2>5, <3>1
  <2>6. ASSUME NEW c \in Callers, path' = path, path # "dense", Breaker!Cancel(c)
        PROVE  ProbeInv'
    BY <2>6 DEF Breaker!Cancel, Breaker!Return, Breaker!breaker
  <2>7. QED
    BY <2>1, <2>2, <2>3, <2>4, <2>5, <2>6, BreakerSteps
<1>3. ProbeInv => ProbeIsLostByCancellation
  BY DEF ProbeInv, ProbeIsLostByCancellation
<1>4. QED
  BY <1>1, <1>2, <1>3, OneProbe, PTL DEF Spec

\* The breaker's count of failures never exceeds what the vendor really did,
\* and equals it unless the hybrid tool takes a failure for an answer.
THEOREM RecordedIsRealHolds == Spec => []RecordedIsReal
<1>1. Init => RecordedIsReal
  BY DEF Init, Breaker!Init, RecordedIsReal
<1>2. TypeOK /\ RecordedIsReal /\ [Next]_vars => RecordedIsReal'
  <2> SUFFICES ASSUME TypeOK, RecordedIsReal, [Next]_vars
               PROVE  RecordedIsReal'
    OBVIOUS
  <2>0. streak \in 0..FailureThreshold /\ lost \in 0..FailureThreshold
        /\ FailureThreshold \in Nat
    BY RunAssumption DEF TypeOK, Breaker!TypeOK, RunTypeOK
  <2> USE DEF RecordedIsReal
  <2>1. CASE UNCHANGED <<breakerVars, path, lost>>
    BY <2>1 DEF breakerVars
  <2>2. CASE path' = path /\ lost' = lost /\ Breaker!Cool
    BY <2>2 DEF Breaker!Cool, Breaker!history
  <2>3. ASSUME NEW c \in Callers, path' = path, lost' = lost,
               Breaker!Call(c) \/ Breaker!Cancel(c)
        PROVE  RecordedIsReal'
    BY <2>3 DEF Breaker!Call, Breaker!Admit, Breaker!AdmitProbe, Breaker!Cancel,
         Breaker!history
  <2>4. ASSUME NEW c \in Callers, path' = path, Breaker!Succeed(c),
               lost' = 0 \/ (OneMoreLost /\ path = "hybrid")
        PROVE  RecordedIsReal'
    BY <2>0, <2>4 DEF Breaker!Succeed, Breaker!RecordSuccess, OneMoreLost
  <2>5. ASSUME NEW c \in Callers, path' = path, OneMoreLost, Breaker!Fail(c)
        PROVE  RecordedIsReal'
    BY <2>0, <2>5 DEF Breaker!Fail, Breaker!RecordFailure, Breaker!Lengthen, OneMoreLost
  <2>6. QED
    BY <2>1, <2>2, <2>3, <2>4, <2>5, BreakerSteps
<1>3. QED
  BY <1>1, <1>2, TypeCorrect, PTL DEF Spec

\* Pinecone's outages, and its breaker's refusals, fail no run.
THEOREM OnlyTheMarketVendorFails == Spec => []OnlyTheMarketVendorFailsARun
<1>1. Init => OnlyTheMarketVendorFailsARun
  BY DEF Init, OnlyTheMarketVendorFailsARun
<1>2. OnlyTheMarketVendorFailsARun /\ [Next]_vars => OnlyTheMarketVendorFailsARun'
  <2> SUFFICES ASSUME OnlyTheMarketVendorFailsARun, [Next]_vars
               PROVE  OnlyTheMarketVendorFailsARun'
    OBVIOUS
  <2> USE DEF OnlyTheMarketVendorFailsARun
  <2>1. CASE Progress \/ IngestRaises \/ SyncUpload \/ Cool \/ UNCHANGED vars
    BY <2>1 DEF Progress, Deliver, Ingest, Supervise, Join, Complete, End,
         IngestRaises, SyncUpload, Cool, vars, runVars
  <2>2. ASSUME NEW n \in Nodes, Advance(n) \/ Raise(n)
        PROVE  OnlyTheMarketVendorFailsARun'
    BY <2>2 DEF Advance, Hit, Miss, Classify, Answer, Ask, OutOfSteps, Act, Mock,
         Raise, Fail
  <2>3. ASSUME NEW c \in Callers, Call(c) \/ Refused(c) \/ Outcome(c)
        PROVE  OnlyTheMarketVendorFailsARun'
    BY <2>3 DEF Call, Refused, Outcome, Answered, Failed, FailedWithoutText,
         Abandon, Fail, runVars
  <2>4. QED
    BY <2>1, <2>2, <2>3 DEF Next
<1>3. QED
  BY <1>1, <1>2, PTL DEF Spec
=============================================================================
