-------------------------- MODULE MarketDataCache --------------------------
(***************************************************************************)
(* fetch_market_metrics_cache_aside() for one location: the cache entry,   *)
(* the single-flight lock, the callers that missed, and the retried vendor *)
(* call of BaseAPIClient._send_request() each of them may make.            *)
(*                                                                         *)
(* Everything here is about how long things last, so time is in the model: *)
(* whole ticks, counted down.  Redis answers within a tick; what takes     *)
(* time is a vendor attempt, and the sleeps.  Several callers interleave   *)
(* freely within one tick.                                                 *)
(***************************************************************************)
EXTENDS Naturals

CONSTANTS
  Callers,         \* executions of the market_data node, in any worker process
  NoCaller,
  AttemptTimeout,  \* the longest one vendor attempt lasts
  MaxAttempts,     \* config.API_CLIENT_MAX_ATTEMPTS
  RetryBudget,     \* config.API_CLIENT_RETRY_BUDGET_SECONDS
  MaxBackoff,      \* the longest jittered wait between two attempts
  LockTTL,         \* config.MARKET_DATA_CACHE_LOCK_TTL_SECONDS
  EntryTTL,        \* config.MARKET_DATA_CACHE_TTL_SECONDS
  WaitAttempts,    \* config.MARKET_DATA_CACHE_LOCK_WAIT_ATTEMPTS
  WaitInterval     \* config.MARKET_DATA_CACHE_LOCK_WAIT_INTERVAL_SECONDS

ASSUME ConstantsAssumption ==
  /\ NoCaller \notin Callers
  /\ MaxBackoff \in Nat
  /\ {AttemptTimeout, MaxAttempts, RetryBudget, LockTTL, EntryTTL,
      WaitAttempts, WaitInterval} \subseteq Nat \ {0}

VARIABLES
  entryLeft, \* ticks until the cache entry expires; 0: there is none
  lock,      \* whose token the lock key holds
  lockLeft,  \* ticks until the lock key expires
  locked,    \* callers whose SET NX succeeded and who are still in the try block
  pc,        \* where each caller is
  timer,     \* ticks left of its sleep, or until its attempt times out
  polls,     \* polls it has slept for
  attempt,   \* number of its vendor attempt
  age,       \* ticks since it missed
  began      \* its age when it turned to the vendor

redis  == <<entryLeft, lock, lockLeft>>
caller == <<locked, pc, timer, polls, attempt, age, began>>
vars   == <<redis, caller>>

\* Places where a caller is between two Redis commands.
Steps ==
  {"idle",       \* not in the function
   "missed",     \* before the SET NX of the lock
   "waiting",    \* lost the race, asleep before the next poll
   "attempting", \* a vendor request is out
   "backoff",    \* asleep before the next attempt
   "storing",    \* before the SET of the entry
   "releasing"}  \* in the finally, before the release script

TypeOK ==
  /\ entryLeft \in 0..EntryTTL
  /\ lock \in Callers \cup {NoCaller}
  /\ lockLeft \in 0..LockTTL
  /\ lock = NoCaller <=> lockLeft = 0
  /\ locked \subseteq Callers
  /\ pc \in [Callers -> Steps]
  /\ timer \in [Callers -> Nat]
  /\ polls \in [Callers -> Nat]
  /\ attempt \in [Callers -> Nat]
  /\ age \in [Callers -> Nat]
  /\ began \in [Callers -> Nat]
  /\ \A c \in Callers : began[c] <= age[c]

Init ==
  /\ entryLeft = 0
  /\ lock = NoCaller
  /\ lockLeft = 0
  /\ locked = {}
  /\ pc = [c \in Callers |-> "idle"]
  /\ timer = [c \in Callers |-> 0]
  /\ polls = [c \in Callers |-> 0]
  /\ attempt = [c \in Callers |-> 0]
  /\ age = [c \in Callers |-> 0]
  /\ began = [c \in Callers |-> 0]

\* c's vendor call is not over, or its result not stored yet.
Fetching(c) == pc[c] \in {"attempting", "backoff", "storing"}

\* seconds_since_start of c's retryer.
Elapsed(c) == age[c] - began[c]

-----------------------------------------------------------------------------
(***************************************************************************)
(* The end of a call, in whatever way                                      *)
(***************************************************************************)

\* c leaves the function, the lock key untouched.
Leave(c) ==
  /\ pc' = [pc EXCEPT ![c] = "idle"]
  /\ timer' = [timer EXCEPT ![c] = 0]
  /\ polls' = [polls EXCEPT ![c] = 0]
  /\ attempt' = [attempt EXCEPT ![c] = 0]
  /\ age' = [age EXCEPT ![c] = 0]
  /\ began' = [began EXCEPT ![c] = 0]
  /\ locked' = locked \ {c}

\* The holder of a token goes through the finally first.
Finish(c) ==
  IF c \in locked
    THEN /\ pc' = [pc EXCEPT ![c] = "releasing"]
         /\ UNCHANGED <<locked, timer, polls, attempt, age, began>>
    ELSE Leave(c)

-----------------------------------------------------------------------------
(***************************************************************************)
(* Cache and lock                                                          *)
(***************************************************************************)

\* Mutant: the lock is tried without looking at the cache.
MissUnread(c) ==
  /\ pc[c] = "idle"
  /\ pc' = [pc EXCEPT ![c] = "missed"]
  /\ UNCHANGED <<redis, locked, timer, polls, attempt, age, began>>

\* get_cached_market_metrics() finds nothing.  A hit changes nothing, and so
\* has no action.
Miss(c) ==
  /\ pc[c] = "idle"
  /\ entryLeft = 0
  /\ pc' = [pc EXCEPT ![c] = "missed"]
  /\ UNCHANGED <<redis, locked, timer, polls, attempt, age, began>>

\* fetch_fn() starts: the retryer's clock and its first attempt.
TurnToVendor(c) ==
  /\ pc' = [pc EXCEPT ![c] = "attempting"]
  /\ timer' = [timer EXCEPT ![c] = AttemptTimeout]
  /\ attempt' = [attempt EXCEPT ![c] = 1]
  /\ began' = [began EXCEPT ![c] = age[c]]

\* Mutant: SET without NX.
AcquireLockAnyway(c) ==
  /\ pc[c] = "missed"
  /\ lock' = c
  /\ lockLeft' = LockTTL
  /\ locked' = locked \cup {c}
  /\ TurnToVendor(c)
  /\ UNCHANGED <<entryLeft, polls, age>>

\* SET NX EX succeeds; the cache is not read again.
AcquireLock(c) ==
  /\ pc[c] = "missed"
  /\ lock = NoCaller
  /\ lock' = c
  /\ lockLeft' = LockTTL
  /\ locked' = locked \cup {c}
  /\ TurnToVendor(c)
  /\ UNCHANGED <<entryLeft, polls, age>>

Sleep(c) ==
  /\ pc' = [pc EXCEPT ![c] = "waiting"]
  /\ polls' = [polls EXCEPT ![c] = polls[c] + 1]
  /\ timer' = [timer EXCEPT ![c] = WaitInterval]
  /\ UNCHANGED <<redis, locked, attempt, age, began>>

LoseRace(c) == pc[c] = "missed" /\ lock # NoCaller /\ Sleep(c)

Awake(c) == pc[c] = "waiting" /\ timer[c] = 0

PollHit(c) == Awake(c) /\ entryLeft > 0 /\ Leave(c) /\ UNCHANGED redis

PollAgain(c) ==
  /\ Awake(c)
  /\ entryLeft = 0
  /\ polls[c] < WaitAttempts
  /\ Sleep(c)

\* Mutant: whoever waited still needs the lock to be free.
GiveUpIfUnlocked(c) ==
  /\ Awake(c)
  /\ entryLeft = 0
  /\ polls[c] = WaitAttempts
  /\ lock = NoCaller
  /\ TurnToVendor(c)
  /\ UNCHANGED <<redis, locked, polls, age>>

\* The poll budget is spent: fetch without the lock.
GiveUpWaiting(c) ==
  /\ Awake(c)
  /\ entryLeft = 0
  /\ polls[c] = WaitAttempts
  /\ TurnToVendor(c)
  /\ UNCHANGED <<redis, locked, polls, age>>

\* set_cached_market_metrics(), with or without the lock.
Store(c) ==
  /\ pc[c] = "storing"
  /\ entryLeft' = EntryTTL
  /\ Finish(c)
  /\ UNCHANGED <<lock, lockLeft>>

\* Redis refuses it: the exception passes the finally.
StoreFails(c) == pc[c] = "storing" /\ Finish(c) /\ UNCHANGED redis

\* Mutant: DEL instead of compare-and-delete.
ReleaseUnchecked(c) ==
  /\ pc[c] = "releasing"
  /\ lock' = NoCaller
  /\ lockLeft' = 0
  /\ Leave(c)
  /\ UNCHANGED entryLeft

\* _RELEASE_LOCK_IF_OWNER_SCRIPT.
Release(c) ==
  /\ pc[c] = "releasing"
  /\ IF lock = c
       THEN lock' = NoCaller /\ lockLeft' = 0
       ELSE UNCHANGED <<lock, lockLeft>>
  /\ Leave(c)
  /\ UNCHANGED entryLeft

-----------------------------------------------------------------------------
(***************************************************************************)
(* The vendor call                                                         *)
(***************************************************************************)

\* A usable answer: before the timeout, whenever the vendor likes.
Answered(c) ==
  /\ pc[c] = "attempting"
  /\ pc' = [pc EXCEPT ![c] = "storing"]
  /\ UNCHANGED <<redis, locked, timer, polls, attempt, age, began>>

\* Mutant: stop_after_delay() is left out.
AnotherAttemptAnyTime(c) == attempt[c] < MaxAttempts

\* stop_after_attempt() | stop_after_delay(), asked when an attempt has failed.
AnotherAttempt(c) == attempt[c] < MaxAttempts /\ Elapsed(c) < RetryBudget

\* 429, 5xx or no connection, at the latest at the attempt's timeout: a jittered
\* wait, if there is to be another attempt.
AttemptFails(c) ==
  /\ pc[c] = "attempting"
  /\ AnotherAttempt(c)
  /\ pc' = [pc EXCEPT ![c] = "backoff"]
  /\ \E wait \in 0..MaxBackoff : timer' = [timer EXCEPT ![c] = wait]
  /\ UNCHANGED <<redis, locked, polls, attempt, age, began>>

NextAttempt(c) ==
  /\ pc[c] = "backoff"
  /\ timer[c] = 0
  /\ pc' = [pc EXCEPT ![c] = "attempting"]
  /\ timer' = [timer EXCEPT ![c] = AttemptTimeout]
  /\ attempt' = [attempt EXCEPT ![c] = attempt[c] + 1]
  /\ UNCHANGED <<redis, locked, polls, age, began>>

\* fetch_fn() raises: the retries are over; or the breaker refuses the call, the
\* vendor answers 4xx or with no listing, or the task is cancelled.
FetchRaises(c) ==
  /\ pc[c] \in {"attempting", "backoff"}
  /\ Finish(c)
  /\ UNCHANGED redis

\* The worker is killed, or the Redis command c is at fails: whatever it holds
\* stays behind.
Crash(c) == pc[c] # "idle" /\ Leave(c) /\ UNCHANGED redis

-----------------------------------------------------------------------------
(***************************************************************************)
(* Time                                                                    *)
(***************************************************************************)

Sub1(n) == IF n = 0 THEN 0 ELSE n - 1

Timed == {"waiting", "attempting", "backoff"}

\* A tick passes once nobody has anything left to do before it: sleeps end and
\* attempts time out when they are due.
Tick ==
  /\ \A c \in Callers : pc[c] = "idle" \/ (pc[c] \in Timed /\ timer[c] > 0)
  /\ entryLeft' = Sub1(entryLeft)
  /\ lockLeft' = Sub1(lockLeft)
  /\ lock' = IF lockLeft' = 0 THEN NoCaller ELSE lock
  /\ timer' = [c \in Callers |-> Sub1(timer[c])]
  /\ age' = [c \in Callers |-> IF pc[c] = "idle" THEN age[c] ELSE age[c] + 1]
  /\ UNCHANGED <<locked, pc, polls, attempt, began>>

-----------------------------------------------------------------------------
Lock(c)   == AcquireLock(c) \/ LoseRace(c) \/ Release(c)
Wait(c)   == PollHit(c) \/ PollAgain(c) \/ GiveUpWaiting(c)
Fetch(c)  == Answered(c) \/ AttemptFails(c) \/ NextAttempt(c) \/ FetchRaises(c)
Update(c) == Store(c) \/ StoreFails(c)

Next ==
  \/ Tick
  \/ \E c \in Callers :
       Miss(c) \/ Lock(c) \/ Wait(c) \/ Fetch(c) \/ Update(c) \/ Crash(c)

Spec == Init /\ [][Next]_vars

\* Time passes, whatever comes and goes meanwhile; Redis answers, sleeps end,
\* and an attempt's timeout is served.
FairSpec ==
  /\ Spec
  /\ SF_vars(Tick)
  /\ \A c \in Callers : WF_vars(Lock(c) \/ Wait(c) \/ Fetch(c) \/ Update(c))

-----------------------------------------------------------------------------
(***************************************************************************)
(* What the cache promises                                                 *)
(***************************************************************************)

\* The retryer stops asking for more once the budget is spent, but not in the
\* middle of a wait or of an attempt.
LongestCall == RetryBudget - 1 + MaxBackoff + AttemptTimeout
LongestWait == WaitAttempts * WaitInterval

\* Nobody's token is taken from the lock key while its owner fetches, until the
\* TTL has passed: not by a caller that missed with it, nor by an earlier
\* owner that overran its own TTL and comes to its finally.
LeaseCoversCall ==
  \A c \in locked : Fetching(c) /\ Elapsed(c) < LockTTL => lock = c

\* The stampede the lock is there to prevent: two callers are at the vendor side
\* by side only if one of them has outlived its lease, or has waited for its
\* whole poll budget.
SingleFlight ==
  \A c, d \in Callers :
    c # d /\ Fetching(c) /\ Fetching(d) =>
      \E x \in {c, d} : Elapsed(x) >= LockTTL \/ began[x] >= LongestWait

\* The cache is not read again under the lock, so a caller that takes it over
\* from the one that has just stored fetches once more.  That is all the missing
\* second look costs: a fetch beside a live entry is by a caller that missed
\* before the entry was stored, never by one that came later.
RefetchMissedBeforeStore ==
  \A c \in Callers :
    Fetching(c) /\ entryLeft > 0 => EntryTTL - entryLeft <= age[c]

\* No caller waits for ever, whoever dies with the lock: a miss is over within
\* the poll budget and one vendor call.
ReturnsInTime == \A c \in Callers : age[c] <= LongestWait + LongestCall

\* The bound is not met by time standing still: every miss does return.
EveryMissReturns == \A c \in Callers : pc[c] = "missed" ~> pc[c] = "idle"

\* The lock is a lease like the one of the sync: taken when free, given back by
\* its owner alone, lapsing under whoever outlives it.  Those inside are the
\* callers that hold a token; one is overdue when the key is not its own any more.
Leased == INSTANCE LeasedLock WITH
  Owners  <- Callers,
  Nobody  <- NoCaller,
  key     <- lock,
  inside  <- locked,
  overdue <- {c \in locked : lock # c}

LeaseSpec == Leased!Spec
=============================================================================
