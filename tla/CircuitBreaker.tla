--------------------------- MODULE CircuitBreaker ---------------------------
(***************************************************************************)
(* One CircuitBreaker and the calls that go through it: before_call(),     *)
(* the vendor call with all its retries, then record_success() or          *)
(* record_failure().  The breaker's own lock makes each of these three     *)
(* atomic; a call is in flight between them, for as long as it takes.      *)
(*                                                                         *)
(* The clock is reduced to what the code asks of it: whether the reset     *)
(* timeout has passed since the breaker was last tripped.                  *)
(***************************************************************************)
EXTENDS Naturals, FiniteSets

CONSTANTS
  Callers,          \* tasks that call one vendor, each one call at a time
  FailureThreshold, \* config.CIRCUIT_BREAKER_FAILURE_THRESHOLD
  Cancellable       \* whether the task of a call may be cancelled

\* Asked of whoever instantiates the module.
ConstantsAssumption ==
  /\ IsFiniteSet(Callers)
  /\ FailureThreshold \in Nat \ {0}
  /\ Cancellable \in BOOLEAN

VARIABLES
  state,     \* _state, as last written
  failures,  \* _failure_count
  cooled,    \* reset_timeout_seconds have passed since _opened_at
  claimed,   \* _half_open_probe_claimed
  calling,   \* callers admitted, their outcome not recorded yet
  probes,    \* history: calls admitted in the current half-open period
  streak,    \* history: failures recorded since the last success, up to the threshold
  probeLost  \* history: a probe was cancelled

breaker == <<state, failures, cooled, claimed>>
history == <<probes, streak, probeLost>>
vars    == <<breaker, calling, history>>

TypeOK ==
  /\ state \in {"closed", "open", "half_open"}
  /\ failures \in 0..(FailureThreshold - 1)
  /\ cooled \in BOOLEAN
  /\ claimed \in BOOLEAN
  /\ calling \subseteq Callers
  /\ probes \subseteq Callers
  /\ streak \in 0..FailureThreshold
  /\ probeLost \in BOOLEAN

Init ==
  /\ state = "closed"
  /\ failures = 0
  /\ cooled = FALSE
  /\ claimed = FALSE
  /\ calling = {}
  /\ probes = {}
  /\ streak = 0
  /\ probeLost = FALSE

-----------------------------------------------------------------------------
\* The reset timeout passes.
Cool ==
  /\ state = "open"
  /\ ~cooled
  /\ cooled' = TRUE
  /\ UNCHANGED <<state, failures, claimed, calling, history>>

\* _state_locked(): OPEN becomes HALF_OPEN when somebody looks.
HalfOpen == state = "half_open" \/ (state = "open" /\ cooled)

\* before_call() in the CLOSED state.  A refused call changes nothing, and so
\* has no action.
Admit(c) ==
  /\ c \notin calling
  /\ state = "closed"
  /\ calling' = calling \cup {c}
  /\ UNCHANGED <<breaker, history>>

\* Mutant: the probe is not claimed.
AdmitUnclaimed(c) ==
  /\ c \notin calling
  /\ HalfOpen
  /\ state = "half_open" => ~claimed
  /\ state' = "half_open"
  /\ calling' = calling \cup {c}
  /\ probes' = IF state = "open" THEN {c} ELSE probes \cup {c}
  /\ claimed' = FALSE
  /\ UNCHANGED <<failures, cooled, streak, probeLost>>

\* before_call() in the HALF_OPEN state: the promotion forgets the last
\* period's claim, and one caller takes the new one.
AdmitProbe(c) ==
  /\ c \notin calling
  /\ HalfOpen
  /\ state = "half_open" => ~claimed
  /\ state' = "half_open"
  /\ claimed' = TRUE
  /\ calling' = calling \cup {c}
  /\ probes' = IF state = "open" THEN {c} ELSE probes \cup {c}
  /\ UNCHANGED <<failures, cooled, streak, probeLost>>

\* record_success(), in whatever state.
RecordSuccess ==
  /\ state' = "closed"
  /\ failures' = 0
  /\ cooled' = FALSE
  /\ claimed' = FALSE
  /\ streak' = 0

\* Mutant: the count is not reset.
TripKeepsCount ==
  /\ state' = "open"
  /\ cooled' = FALSE
  /\ claimed' = FALSE
  /\ UNCHANGED failures

\* _trip_locked().
Trip ==
  /\ state' = "open"
  /\ cooled' = FALSE
  /\ failures' = 0
  /\ claimed' = FALSE

Lengthen == streak' = IF streak < FailureThreshold THEN streak + 1 ELSE streak

\* Mutant: a failed probe is counted like any other failure.
RecordFailureCountsProbe ==
  /\ Lengthen
  /\ IF failures + 1 >= FailureThreshold
       THEN Trip
       ELSE failures' = failures + 1 /\ UNCHANGED <<state, cooled, claimed>>

\* record_failure(): it does not look at the clock, so that an OPEN breaker
\* counts the late failures of calls admitted before it tripped.
RecordFailure ==
  /\ Lengthen
  /\ IF state = "half_open" \/ failures + 1 >= FailureThreshold
       THEN Trip
       ELSE failures' = failures + 1 /\ UNCHANGED <<state, cooled, claimed>>

Return(c) == c \in calling /\ calling' = calling \ {c}

\* The vendor answered, be it with a 4xx.
Succeed(c) ==
  /\ Return(c)
  /\ RecordSuccess
  /\ UNCHANGED <<probes, probeLost>>

\* The attempts or the retry budget ran out on 429, 5xx or no connection.
Fail(c) ==
  /\ Return(c)
  /\ RecordFailure
  /\ UNCHANGED <<probes, probeLost>>

\* The task is cancelled while the call is in flight (a node beside it raised):
\* no except clause of the call's record matches, and nothing is recorded.
Cancel(c) ==
  /\ Cancellable
  /\ Return(c)
  /\ probeLost' = (probeLost \/ (state = "half_open" /\ c \in probes))
  /\ UNCHANGED <<breaker, probes, streak>>

-----------------------------------------------------------------------------
Call(c) == Admit(c) \/ AdmitProbe(c)
End(c)  == Succeed(c) \/ Fail(c)

Next == Cool \/ \E c \in Callers : Call(c) \/ End(c) \/ Cancel(c)

Spec == Init /\ [][Next]_vars

-----------------------------------------------------------------------------
(***************************************************************************)
(* What the breaker promises                                               *)
(***************************************************************************)

\* CircuitState.HALF_OPEN: one probe is let through until the breaker has heard
\* of a result, whoever's it is.
OneProbePerPeriod ==
  state = "half_open" => claimed /\ \E c \in Callers : probes = {c}

\* The breaker is open because of FailureThreshold failures in a row and not
\* one success, and never closed after as many.
OpenAfterAStreak ==
  IF state = "closed" THEN streak = failures ELSE streak = FailureThreshold

\* As long as no more callers share the breaker than it takes to trip it, the
\* late failures of calls admitted before a trip cannot trip it once more and
\* put off the probe, even if every one of them fails.
LateFailuresKeepTheClock ==
  Cardinality(Callers) <= FailureThreshold /\ state = "open" =>
    failures + Cardinality(calling) < FailureThreshold
=============================================================================
