----------------------- MODULE MarketDataCacheProofs -----------------------
(***************************************************************************)
(* The timing of MarketDataCache for any number of callers and any values  *)
(* of the configuration: what the lease covers (Lease), and how long a     *)
(* miss can last (Clock).  Both follow one caller's clocks through its     *)
(* places; what the other callers do is visible to it in the lock only.    *)
(***************************************************************************)
EXTENDS MarketDataCache, TLAPS

\* The constants one by one.
LEMMA Sizes ==
  /\ AttemptTimeout \in Nat /\ MaxAttempts \in Nat /\ RetryBudget \in Nat
  /\ MaxBackoff \in Nat /\ LockTTL \in Nat /\ EntryTTL \in Nat
  /\ WaitAttempts \in Nat /\ WaitInterval \in Nat
  /\ MaxAttempts > 0 /\ RetryBudget > 0 /\ LockTTL > 0 /\ EntryTTL > 0
  /\ WaitAttempts > 0
  BY ConstantsAssumption

LEMMA Countdown ==
  ASSUME NEW n \in Nat
  PROVE  Sub1(n) \in Nat /\ Sub1(n) <= n /\ (n > 0 => Sub1(n) = n - 1)
  BY DEF Sub1

\* Fields stay in their ranges; the lock key has an owner exactly as long as it
\* has not expired.
THEOREM TypeCorrect == Spec => []TypeOK
<1>1. Init => TypeOK
  BY Sizes DEF Init, TypeOK, Steps
<1>2. TypeOK /\ [Next]_vars => TypeOK'
  <2> SUFFICES ASSUME TypeOK, [Next]_vars
               PROVE  TypeOK'
    OBVIOUS
  <2> USE Sizes DEF TypeOK
  <2>1. CASE Tick
    <3>1. entryLeft' \in 0..EntryTTL /\ lockLeft' \in 0..LockTTL
      BY <2>1, Countdown DEF Tick
    <3>2. lock' \in Callers \cup {NoCaller} /\ (lock' = NoCaller <=> lockLeft' = 0)
      <4>1. CASE lockLeft' = 0
        BY <2>1, <4>1 DEF Tick
      <4>2. CASE lockLeft' # 0
        <5>1. lockLeft # 0
          BY <2>1, <4>2 DEF Tick, Sub1
        <5>2. lock' = lock
          BY <2>1, <4>2 DEF Tick
        <5>3. QED
          BY <4>2, <5>1, <5>2
      <4>3. QED
        BY <4>1, <4>2
    <3>3. timer' \in [Callers -> Nat] /\ age' \in [Callers -> Nat]
      BY <2>1, Countdown DEF Tick
    <3>4. \A c \in Callers : began'[c] <= age'[c]
      BY <2>1 DEF Tick
    <3>5. QED
      BY <2>1, <3>1, <3>2, <3>3, <3>4 DEF Tick
  <2>2. ASSUME NEW c \in Callers, Miss(c)
        PROVE  TypeOK'
    BY <2>2 DEF Miss, redis, Steps
  <2>3. ASSUME NEW c \in Callers, Lock(c)
        PROVE  TypeOK'
    <3>1. CASE AcquireLock(c)
      BY <3>1, ConstantsAssumption DEF AcquireLock, TurnToVendor, Steps
    <3>2. CASE LoseRace(c)
      BY <3>2 DEF LoseRace, Sleep, redis, Steps
    <3>3. CASE Release(c)
      BY <3>3 DEF Release, Leave, Steps
    <3>4. QED
      BY <2>3, <3>1, <3>2, <3>3 DEF Lock
  <2>4. ASSUME NEW c \in Callers, Wait(c)
        PROVE  TypeOK'
    <3>1. CASE PollHit(c)
      BY <3>1 DEF PollHit, Leave, redis, Steps
    <3>2. CASE PollAgain(c)
      BY <3>2 DEF PollAgain, Sleep, redis, Steps
    <3>3. CASE GiveUpWaiting(c)
      BY <3>3 DEF GiveUpWaiting, TurnToVendor, redis, Steps
    <3>4. QED
      BY <2>4, <3>1, <3>2, <3>3 DEF Wait
  <2>5. ASSUME NEW c \in Callers, Fetch(c)
        PROVE  TypeOK'
    <3>1. CASE Answered(c)
      BY <3>1 DEF Answered, redis, Steps
    <3>2. CASE AttemptFails(c)
      BY <3>2 DEF AttemptFails, redis, Steps
    <3>3. CASE NextAttempt(c)
      BY <3>3 DEF NextAttempt, redis, Steps
    <3>4. CASE FetchRaises(c)
      BY <3>4 DEF FetchRaises, Finish, Leave, redis, Steps
    <3>5. QED
      BY <2>5, <3>1, <3>2, <3>3, <3>4 DEF Fetch
  <2>6. ASSUME NEW c \in Callers, Update(c)
        PROVE  TypeOK'
    BY <2>6 DEF Update, Store, StoreFails, Finish, Leave, redis, Steps
  <2>7. ASSUME NEW c \in Callers, Crash(c)
        PROVE  TypeOK'
    BY <2>7 DEF Crash, Leave, redis, Steps
  <2>8. CASE UNCHANGED vars
    BY <2>8 DEF vars, redis, caller
  <2>9. QED
    BY <2>1, <2>2, <2>3, <2>4, <2>5, <2>6, <2>7, <2>8 DEF Next
<1>3. QED
  BY <1>1, <1>2, PTL DEF Spec

-----------------------------------------------------------------------------
\* What caller c's step leaves alone: every other caller's variables.
LEMMA OthersUntouched ==
  ASSUME TypeOK, NEW c \in Callers, NEW d \in Callers, c # d,
         Miss(d) \/ Lock(d) \/ Wait(d) \/ Fetch(d) \/ Update(d) \/ Crash(d)
  PROVE  /\ pc'[c] = pc[c] /\ timer'[c] = timer[c] /\ polls'[c] = polls[c]
         /\ age'[c] = age[c] /\ began'[c] = began[c]
         /\ c \in locked' <=> c \in locked
<1> USE DEF TypeOK
<1>1. CASE Miss(d)
  BY <1>1 DEF Miss
<1>2. CASE Lock(d)
  BY <1>2 DEF Lock, AcquireLock, LoseRace, Release, TurnToVendor, Sleep, Leave
<1>3. CASE Wait(d)
  BY <1>3 DEF Wait, PollHit, PollAgain, GiveUpWaiting, TurnToVendor, Sleep, Leave
<1>4. CASE Fetch(d)
  BY <1>4 DEF Fetch, Answered, AttemptFails, NextAttempt, FetchRaises, Finish, Leave
<1>5. CASE Update(d) \/ Crash(d)
  BY <1>5 DEF Update, Store, StoreFails, Crash, Finish, Leave
<1>6. QED
  BY <1>1, <1>2, <1>3, <1>4, <1>5

\* The lock key of an owner within its lease is no one else's to write.
LEMMA OthersKeepLock ==
  ASSUME TypeOK, NEW c \in Callers, NEW d \in Callers, c # d, lock = c,
         Miss(d) \/ Lock(d) \/ Wait(d) \/ Fetch(d) \/ Update(d) \/ Crash(d)
  PROVE  lock' = lock /\ lockLeft' = lockLeft
<1>1. lock # NoCaller /\ lock # d
  BY ConstantsAssumption
<1>2. CASE Lock(d)
  BY <1>1, <1>2 DEF Lock, AcquireLock, LoseRace, Sleep, Release, redis
<1>3. CASE Miss(d) \/ Wait(d)
  BY <1>3 DEF Miss, Wait, PollHit, PollAgain, GiveUpWaiting, Sleep, redis
<1>4. CASE Fetch(d) \/ Update(d) \/ Crash(d)
  BY <1>4 DEF Fetch, Answered, AttemptFails, NextAttempt, FetchRaises, Update,
              Store, StoreFails, Crash, redis
<1>5. QED
  BY <1>2, <1>3, <1>4

-----------------------------------------------------------------------------
\* A caller in the try block is past the SET NX, and while its retryer's clock
\* is below the TTL the key is its own with the rest of the TTL to go.
Lease(c) ==
  c \in locked =>
    /\ pc[c] \in {"attempting", "backoff", "storing", "releasing"}
    /\ Fetching(c) /\ Elapsed(c) < LockTTL =>
         lock = c /\ lockLeft + Elapsed(c) = LockTTL

\* No caller's single-flight lock goes to somebody else while it fetches and
\* its TTL has not passed.
THEOREM LeaseCoversCallHolds == Spec => []LeaseCoversCall
<1> DEFINE LeaseInv == \A c \in Callers : Lease(c)
<1>1. Init => LeaseInv
  BY DEF Init, Lease
<1>2. TypeOK /\ LeaseInv /\ [Next]_vars => LeaseInv'
  <2> SUFFICES ASSUME TypeOK, LeaseInv, [Next]_vars, NEW c \in Callers
               PROVE  Lease(c)'
    BY DEF Lease
  <2>1. Lease(c)
    OBVIOUS
  <2> HIDE DEF LeaseInv
  <2> USE Sizes DEF TypeOK, Lease, Fetching, Elapsed
  <2>2. CASE Tick
    <3> SUFFICES ASSUME c \in locked, Fetching(c), Elapsed(c)' < LockTTL
                 PROVE  lock' = c /\ lockLeft' + Elapsed(c)' = LockTTL
      BY <2>1, <2>2 DEF Tick
    <3>1. Elapsed(c)' = Elapsed(c) + 1
      BY <2>2 DEF Tick
    <3>2. lock = c /\ lockLeft + Elapsed(c) = LockTTL
      BY <2>1, <3>1
    <3>3. lockLeft' = lockLeft - 1 /\ lockLeft' > 0
      BY <2>2, <3>1, <3>2 DEF Tick, Sub1
    <3>4. QED
      BY <2>2, <3>1, <3>2, <3>3 DEF Tick
  <2>3. ASSUME NEW d \in Callers, c # d,
               Miss(d) \/ Lock(d) \/ Wait(d) \/ Fetch(d) \/ Update(d) \/ Crash(d)
        PROVE  Lease(c)'
    <3>1. /\ pc'[c] = pc[c] /\ age'[c] = age[c] /\ began'[c] = began[c]
          /\ c \in locked' <=> c \in locked
      BY <2>3, OthersUntouched
    <3>2. lock = c => lock' = lock /\ lockLeft' = lockLeft
      BY <2>3, OthersKeepLock
    <3>3. QED
      BY <2>1, <3>1, <3>2
  <2>4. CASE Leave(c)
    BY <2>4 DEF Leave
  <2>5. CASE Miss(c)
    BY <2>1, <2>5 DEF Miss
  <2>6. CASE Lock(c)
    <3>1. CASE AcquireLock(c)
      BY <3>1 DEF AcquireLock, TurnToVendor
    <3>2. CASE LoseRace(c)
      BY <2>1, <3>2 DEF LoseRace, Sleep
    <3>3. QED
      BY <2>4, <2>6, <3>1, <3>2 DEF Lock, Release
  <2>7. CASE Wait(c)
    <3>1. c \notin locked
      BY <2>1, <2>7 DEF Wait, PollHit, PollAgain, GiveUpWaiting, Awake
    <3>2. c \notin locked'
      BY <2>7, <3>1 DEF Wait, PollHit, PollAgain, GiveUpWaiting, Sleep, Leave
    <3>3. QED
      BY <3>2
  <2>8. CASE Finish(c)
    <3>1. CASE c \in locked
      BY <2>8, <3>1 DEF Finish
    <3>2. CASE c \notin locked
      BY <2>4, <2>8, <3>2 DEF Finish
    <3>3. QED
      BY <3>1, <3>2
  <2>9. CASE Answered(c) \/ AttemptFails(c) \/ NextAttempt(c)
    <3>1. /\ UNCHANGED <<lock, lockLeft, locked, age, began>>
          /\ pc[c] \in {"attempting", "backoff"}
          /\ pc'[c] \in {"attempting", "backoff", "storing"}
      BY <2>9 DEF Answered, AttemptFails, NextAttempt, redis
    <3>2. QED
      BY <2>1, <3>1
  <2>10. CASE Fetch(c) \/ Update(c) \/ Crash(c)
    BY <2>4, <2>8, <2>9, <2>10
      DEF Fetch, FetchRaises, Update, Store, StoreFails, Crash
  <2>11. CASE UNCHANGED vars
    BY <2>1, <2>11 DEF vars, redis, caller
  <2>12. QED
    BY <2>2, <2>3, <2>5, <2>6, <2>7, <2>10, <2>11 DEF Next
<1>3. TypeOK /\ LeaseInv => LeaseCoversCall
  BY DEF TypeOK, Lease, LeaseCoversCall
<1>4. QED
  BY <1>1, <1>2, <1>3, TypeCorrect, PTL DEF Spec
-----------------------------------------------------------------------------
\* Polls times the interval: how long the waiting has taken.
LEMMA Polling ==
  ASSUME NEW p \in Nat
  PROVE  /\ p * WaitInterval \in Nat
         /\ (p + 1) * WaitInterval = p * WaitInterval + WaitInterval
         /\ p <= WaitAttempts => p * WaitInterval <= WaitAttempts * WaitInterval
<1>1. p * WaitInterval \in Nat
  BY Sizes
<1>2. (p + 1) * WaitInterval = p * WaitInterval + WaitInterval
  BY Sizes
<1>3. ASSUME p <= WaitAttempts
      PROVE  p * WaitInterval <= WaitAttempts * WaitInterval
  BY Sizes, <1>3
<1>4. QED
  BY <1>1, <1>2, <1>3

Busy(c) == pc[c] \in {"attempting", "backoff", "storing", "releasing"}

\* The clocks of a caller at each of its places: it waits in whole polls, turns
\* to the vendor at once with the lock and after the last poll without, and
\* does not begin what could end later than LongestCall.
Clock(c) ==
  /\ pc[c] \in {"idle", "missed"} => polls[c] = 0 /\ age[c] = 0
  /\ pc[c] = "waiting" =>
       polls[c] <= WaitAttempts /\ age[c] + timer[c] = polls[c] * WaitInterval
  /\ c \in locked => Busy(c)
  /\ Busy(c) =>
       /\ began[c] = IF c \in locked THEN 0 ELSE LongestWait
       /\ Elapsed(c) <= LongestCall
       /\ pc[c] = "attempting" => Elapsed(c) + timer[c] <= LongestCall
       /\ pc[c] = "backoff" => Elapsed(c) + timer[c] <= RetryBudget - 1 + MaxBackoff

ClockInv == \A c \in Callers : Clock(c)

LEMMA ClockInvariant == Spec => []ClockInv
<1>1. Init => ClockInv
  BY DEF Init, ClockInv, Clock, Busy
<1>2. TypeOK /\ ClockInv /\ [Next]_vars => ClockInv'
  <2> SUFFICES ASSUME TypeOK, ClockInv, [Next]_vars, NEW c \in Callers
               PROVE  Clock(c)'
    BY DEF ClockInv
  <2>1. Clock(c)
    BY DEF ClockInv
  <2>2. /\ LongestWait \in Nat /\ LongestCall \in Nat
        /\ AttemptTimeout <= LongestCall
        /\ RetryBudget - 1 + MaxBackoff + AttemptTimeout = LongestCall
    BY Sizes, Polling DEF LongestWait, LongestCall
  <2>3. \A p \in Nat : p * WaitInterval \in Nat
    BY Polling
  <2> USE Sizes DEF TypeOK, Clock, Busy, Elapsed
  <2>4. CASE Tick
    <3>1. CASE pc[c] = "idle"
      BY <2>1, <2>4, <3>1 DEF Tick
    <3>2. CASE pc[c] # "idle"
      <4>1. /\ pc[c] \in Timed /\ timer'[c] = timer[c] - 1 /\ age'[c] = age[c] + 1
            /\ timer[c] > 0 /\ UNCHANGED <<locked, pc, polls, began>>
        BY <2>4, <3>2 DEF Tick, Sub1
      <4>2. CASE pc[c] = "waiting"
        BY <2>1, <2>3, <4>1, <4>2
      <4>3. CASE pc[c] = "attempting"
        BY <2>1, <2>2, <4>1, <4>3
      <4>4. CASE pc[c] = "backoff"
        BY <2>1, <2>2, <4>1, <4>4
      <4>5. QED
        BY <4>1, <4>2, <4>3, <4>4 DEF Timed
    <3>3. QED
      BY <3>1, <3>2
  <2>5. ASSUME NEW d \in Callers, c # d,
               Miss(d) \/ Lock(d) \/ Wait(d) \/ Fetch(d) \/ Update(d) \/ Crash(d)
        PROVE  Clock(c)'
    <3>1. /\ pc'[c] = pc[c] /\ timer'[c] = timer[c] /\ polls'[c] = polls[c]
          /\ age'[c] = age[c] /\ began'[c] = began[c]
          /\ c \in locked' <=> c \in locked
      BY <2>5, OthersUntouched
    <3>2. QED
      BY <2>1, <3>1
  <2>6. CASE Leave(c)
    BY <2>6 DEF Leave
  <2>7. CASE Miss(c)
    BY <2>1, <2>7 DEF Miss
  <2>8. CASE AcquireLock(c)
    BY <2>1, <2>2, <2>8 DEF AcquireLock, TurnToVendor
  <2>9. CASE LoseRace(c)
    <3>1. /\ polls'[c] = 1 /\ age'[c] = 0 /\ timer'[c] = WaitInterval
          /\ pc'[c] = "waiting" /\ c \notin locked'
      BY <2>1, <2>9 DEF LoseRace, Sleep
    <3>2. QED
      BY <3>1
  <2>10. CASE PollAgain(c)
    <3>1. /\ polls'[c] = polls[c] + 1 /\ age'[c] = age[c]
          /\ timer'[c] = WaitInterval
          /\ pc'[c] = "waiting" /\ c \notin locked'
      BY <2>1, <2>10 DEF PollAgain, Awake, Sleep
    <3>2. age[c] = polls[c] * WaitInterval /\ polls[c] < WaitAttempts
      BY <2>1, <2>10 DEF PollAgain, Awake
    <3>3. (polls[c] + 1) * WaitInterval = polls[c] * WaitInterval + WaitInterval
      BY Polling
    <3>4. age'[c] + timer'[c] = polls'[c] * WaitInterval
      BY <3>1, <3>2, <3>3
    <3>5. QED
      BY <3>1, <3>2, <3>4
  <2>11. CASE GiveUpWaiting(c)
    <3>1. age[c] = LongestWait /\ c \notin locked
      BY <2>1, <2>11 DEF GiveUpWaiting, Awake, LongestWait
    <3>2. /\ began'[c] = LongestWait /\ age'[c] = LongestWait
          /\ timer'[c] = AttemptTimeout
          /\ pc'[c] = "attempting" /\ c \notin locked'
      BY <2>11, <3>1 DEF GiveUpWaiting, TurnToVendor
    <3>3. QED
      BY <2>2, <3>2
  <2>12. CASE Answered(c)
    BY <2>1, <2>12 DEF Answered
  <2>13. CASE AttemptFails(c)
    <3>1. Elapsed(c) < RetryBudget
      BY <2>13 DEF AttemptFails, AnotherAttempt
    <3>2. /\ timer'[c] \in 0..MaxBackoff /\ pc'[c] = "backoff" /\ pc[c] = "attempting"
          /\ UNCHANGED <<locked, age, began>>
      BY <2>13 DEF AttemptFails
    <3>3. QED
      BY <2>1, <3>1, <3>2
  <2>14. CASE NextAttempt(c)
    BY <2>1, <2>2, <2>14 DEF NextAttempt
  <2>15. ASSUME Finish(c), Busy(c)
         PROVE  Clock(c)'
    <3>1. CASE c \in locked
      BY <2>1, <2>15, <3>1 DEF Finish
    <3>2. CASE c \notin locked
      BY <2>6, <2>15, <3>2 DEF Finish
    <3>3. QED
      BY <3>1, <3>2
  <2>16. CASE FetchRaises(c) \/ Update(c)
    BY <2>15, <2>16 DEF FetchRaises, Update, Store, StoreFails
  <2>17. CASE UNCHANGED vars
    BY <2>1, <2>17 DEF vars, caller
  <2>18. QED
    BY <2>4, <2>5, <2>6, <2>7, <2>8, <2>9, <2>10, <2>11, <2>12, <2>13, <2>14,
       <2>16, <2>17
      DEF Next, Lock, Wait, Fetch, Crash, Release, PollHit
<1>3. QED
  BY <1>1, <1>2, TypeCorrect, PTL DEF Spec

\* Whoever dies with the lock, a miss is answered within the poll budget and one
\* vendor call, retries and all.
THEOREM ReturnsInTimeHolds == Spec => []ReturnsInTime
<1>1. TypeOK /\ ClockInv => ReturnsInTime
  <2> SUFFICES ASSUME TypeOK, ClockInv, NEW c \in Callers
               PROVE  age[c] <= LongestWait + LongestCall
    BY DEF ReturnsInTime
  <2>1. Clock(c)
    BY DEF ClockInv
  <2>2. LongestWait \in Nat /\ LongestCall \in Nat
    BY Sizes, Polling DEF LongestWait, LongestCall
  <2> USE DEF TypeOK, Clock
  <2>3. CASE pc[c] = "waiting"
    <3>1. polls[c] * WaitInterval \in Nat /\ polls[c] * WaitInterval <= LongestWait
      BY <2>1, <2>3, Polling DEF LongestWait
    <3>2. QED
      BY <2>1, <2>2, <2>3, <3>1
  <2>4. CASE Busy(c)
    BY <2>1, <2>2, <2>4 DEF Elapsed
  <2>5. QED
    BY <2>1, <2>2, <2>3, <2>4 DEF Busy, Steps
<1>2. QED
  BY <1>1, ClockInvariant, TypeCorrect, PTL

\* One caller at the vendor, or one of two has run out of lease or patience.
THEOREM SingleFlightHolds == Spec => []SingleFlight
<1>1. TypeOK /\ LeaseCoversCall /\ ClockInv => SingleFlight
  <2> SUFFICES ASSUME TypeOK, LeaseCoversCall, ClockInv,
                      NEW c \in Callers, NEW d \in Callers, c # d,
                      Fetching(c), Fetching(d)
               PROVE  \E x \in {c, d} : Elapsed(x) >= LockTTL \/ began[x] >= LongestWait
    BY DEF SingleFlight
  <2>1. ASSUME NEW x \in {c, d}, x \notin locked
        PROVE  began[x] >= LongestWait
    <3>1. Clock(x) /\ Busy(x)
      BY DEF ClockInv, Fetching, Busy
    <3>2. LongestWait \in Nat
      BY Sizes, Polling DEF LongestWait
    <3>3. QED
      BY <2>1, <3>1, <3>2 DEF Clock
  <2>2. ASSUME c \in locked, d \in locked
        PROVE  \E x \in {c, d} : Elapsed(x) >= LockTTL
    <3>1. lock # c \/ lock # d
      OBVIOUS
    <3>2. ~(Elapsed(c) < LockTTL) \/ ~(Elapsed(d) < LockTTL)
      BY <2>2, <3>1 DEF LeaseCoversCall
    <3>3. Elapsed(c) \in Nat /\ Elapsed(d) \in Nat
      BY DEF TypeOK, Elapsed
    <3>4. QED
      BY <3>2, <3>3, Sizes
  <2>3. QED
    BY <2>1, <2>2
<1>2. QED
  BY <1>1, LeaseCoversCallHolds, ClockInvariant, TypeCorrect, PTL
-----------------------------------------------------------------------------
\* Whoever is in the function missed, and the entry there is was stored since.
MissedBefore(c) ==
  pc[c] # "idle" /\ entryLeft > 0 => EntryTTL - entryLeft <= age[c]

\* A fetch beside a live entry is by a caller that missed before it was stored.
THEOREM RefetchMissedBeforeStoreHolds == Spec => []RefetchMissedBeforeStore
<1> DEFINE MissInv == \A c \in Callers : MissedBefore(c)
<1>1. Init => MissInv
  BY DEF Init, MissedBefore
<1>2. TypeOK /\ MissInv /\ [Next]_vars => MissInv'
  <2> SUFFICES ASSUME TypeOK, MissInv, [Next]_vars, NEW c \in Callers
               PROVE  MissedBefore(c)'
    OBVIOUS
  <2>1. MissedBefore(c)
    OBVIOUS
  <2> HIDE DEF MissInv
  <2> USE Sizes DEF TypeOK, MissedBefore
  <2>2. CASE Tick
    <3> SUFFICES ASSUME pc[c] # "idle", entryLeft' > 0
                 PROVE  EntryTTL - entryLeft' <= age'[c]
      BY <2>2 DEF Tick
    <3>1. entryLeft > 0 /\ entryLeft' = entryLeft - 1 /\ age'[c] = age[c] + 1
      BY <2>2 DEF Tick, Sub1
    <3>2. QED
      BY <2>1, <3>1
  <2>3. ASSUME entryLeft' = entryLeft, age'[c] = age[c], pc[c] # "idle"
        PROVE  MissedBefore(c)'
    BY <2>1, <2>3
  <2>4. ASSUME NEW d \in Callers,
               Miss(d) \/ Lock(d) \/ Wait(d) \/ Fetch(d) \/ Crash(d)
        PROVE  MissedBefore(c)'
    <3>1. entryLeft' = entryLeft
      BY <2>4 DEF Miss, Lock, AcquireLock, LoseRace, Release, Sleep, Wait, PollHit,
                  PollAgain, GiveUpWaiting, Fetch, Answered, AttemptFails,
                  NextAttempt, FetchRaises, Crash, redis
    <3>2. CASE c # d
      BY <2>1, <2>4, <3>1, <3>2, OthersUntouched
    <3>3. CASE Miss(d)
      BY <3>1, <3>2, <3>3 DEF Miss
    <3>4. CASE c = d /\ Leave(c)
      BY <3>4 DEF Leave
    <3>5. CASE c = d /\ age'[c] = age[c] /\ pc[c] # "idle"
      BY <2>3, <3>1, <3>5
    <3>6. ASSUME c = d, Lock(c) \/ Wait(c) \/ Fetch(c) \/ Crash(c)
          PROVE  Leave(c) \/ (age'[c] = age[c] /\ pc[c] # "idle")
      BY <3>6 DEF Lock, AcquireLock, LoseRace, Release, TurnToVendor, Sleep, Wait,
                  Awake, PollHit, PollAgain, GiveUpWaiting, Fetch, Answered,
                  AttemptFails, NextAttempt, FetchRaises, Finish, Crash
    <3>7. QED
      BY <2>4, <3>2, <3>3, <3>4, <3>5, <3>6
  <2>5. ASSUME NEW d \in Callers, Update(d)
        PROVE  MissedBefore(c)'
    <3>1. entryLeft' \in {entryLeft, EntryTTL} /\ age'[c] \in Nat
      BY <2>5 DEF Update, Store, StoreFails, Finish, Leave, redis
    <3>2. CASE entryLeft' = EntryTTL
      BY <3>1, <3>2
    <3>3. CASE entryLeft' = entryLeft
      <4>1. CASE c # d
        BY <2>1, <2>5, <3>3, <4>1, OthersUntouched
      <4>2. CASE c = d
        BY <2>1, <2>5, <3>3, <4>2 DEF Update, Store, StoreFails, Finish, Leave
      <4>3. QED
        BY <4>1, <4>2
    <3>4. QED
      BY <3>1, <3>2, <3>3
  <2>6. CASE UNCHANGED vars
    BY <2>1, <2>6 DEF vars, redis, caller
  <2>7. QED
    BY <2>2, <2>4, <2>5, <2>6 DEF Next
<1>3. TypeOK /\ MissInv => RefetchMissedBeforeStore
  BY DEF MissedBefore, RefetchMissedBeforeStore, Fetching
<1>4. QED
  BY <1>1, <1>2, <1>3, TypeCorrect, PTL DEF Spec
-----------------------------------------------------------------------------
\* In the finally, and before the SET NX, a caller is what its place says.
Finally(c) ==
  /\ pc[c] = "releasing" => c \in locked
  /\ pc[c] \in {"idle", "missed", "waiting"} => c \notin locked

LEMMA FinallyHolds == Spec => [](\A c \in Callers : Finally(c))
<1> DEFINE FinallyInv == \A c \in Callers : Finally(c)
<1>1. Init => FinallyInv
  BY DEF Init, Finally
<1>2. TypeOK /\ FinallyInv /\ [Next]_vars => FinallyInv'
  <2> SUFFICES ASSUME TypeOK, FinallyInv, [Next]_vars, NEW c \in Callers
               PROVE  Finally(c)'
    OBVIOUS
  <2>1. Finally(c)
    OBVIOUS
  <2> HIDE DEF FinallyInv
  <2> USE DEF TypeOK, Finally
  <2>2. CASE Tick \/ UNCHANGED vars
    BY <2>1, <2>2 DEF Tick, vars, caller
  <2>3. ASSUME NEW d \in Callers, c # d,
               Miss(d) \/ Lock(d) \/ Wait(d) \/ Fetch(d) \/ Update(d) \/ Crash(d)
        PROVE  Finally(c)'
    BY <2>1, <2>3, OthersUntouched
  <2>4. CASE Leave(c)
    BY <2>4 DEF Leave
  <2>5. CASE Finish(c)
    BY <2>4, <2>5 DEF Finish
  <2>6. CASE Miss(c)
    BY <2>1, <2>6 DEF Miss
  <2>7. CASE Lock(c)
    BY <2>1, <2>4, <2>7 DEF Lock, AcquireLock, LoseRace, Release, TurnToVendor, Sleep
  <2>8. CASE Wait(c)
    BY <2>1, <2>4, <2>8 DEF Wait, Awake, PollHit, PollAgain, GiveUpWaiting, TurnToVendor, Sleep
  <2>9. CASE Fetch(c)
    BY <2>1, <2>5, <2>9 DEF Fetch, Answered, AttemptFails, NextAttempt, FetchRaises
  <2>10. CASE Update(c) \/ Crash(c)
    BY <2>4, <2>5, <2>10 DEF Update, Store, StoreFails, Crash
  <2>11. QED
    BY <2>2, <2>3, <2>6, <2>7, <2>8, <2>9, <2>10 DEF Next
<1>3. QED
  BY <1>1, <1>2, TypeCorrect, PTL DEF Spec

\* Neither key nor tokens move.
LEMMA LockUntouched ==
  ASSUME UNCHANGED <<lock, locked>>
  PROVE  UNCHANGED Leased!vars
  BY DEF Leased!vars

\* c leaves with its token in its pocket, or without one.
LEMMA LeaveIsDie ==
  ASSUME NEW c \in Callers, Leave(c), lock' = lock
  PROVE  [Leased!Next]_(Leased!vars)
<1>1. locked' = locked \ {c}
  BY DEF Leave
<1>2. CASE c \in locked
  BY <1>1, <1>2 DEF Leased!Next, Leased!Die
<1>3. CASE c \notin locked
  BY <1>1, <1>3, LockUntouched
<1>4. QED
  BY <1>2, <1>3

LEMMA LeaseStep ==
  ASSUME TypeOK, \A c \in Callers : Finally(c), [Next]_vars
  PROVE  [Leased!Next]_(Leased!vars)
<1> USE ConstantsAssumption DEF TypeOK
<1>1. CASE Tick
  <2>1. CASE lock' = lock
    BY <1>1, <2>1, LockUntouched DEF Tick
  <2>2. CASE lock' # lock
    <3>1. lock # NoCaller /\ lock' = NoCaller /\ locked' = locked
      BY <1>1, <2>2 DEF Tick
    <3>2. Leased!Lapse
      BY <3>1 DEF Leased!Lapse
    <3>3. QED
      BY <3>2 DEF Leased!Next
  <2>3. QED
    BY <2>1, <2>2
<1>2. CASE UNCHANGED vars
  BY <1>2, LockUntouched DEF vars, redis, caller
<1>3. ASSUME NEW c \in Callers, AcquireLock(c)
      PROVE  Leased!Next
  <2>1. c \notin locked
    BY <1>3 DEF AcquireLock, Finally
  <2>2. lock = NoCaller /\ lock' = c /\ locked' = locked \cup {c}
    BY <1>3 DEF AcquireLock
  <2>3. Leased!Enter(c)
    BY <2>1, <2>2 DEF Leased!Enter
  <2>4. QED
    BY <2>3 DEF Leased!Next
<1>4. ASSUME NEW c \in Callers, Release(c)
      PROVE  Leased!Next
  <2>1. c \in locked
    BY <1>4 DEF Release, Finally
  <2>2. locked' = locked \ {c} /\ lock' = IF lock = c THEN NoCaller ELSE lock
    BY <1>4 DEF Release, Leave
  <2>3. Leased!Leave(c)
    BY <2>1, <2>2 DEF Leased!Leave
  <2>4. QED
    BY <2>3 DEF Leased!Next
<1>5. ASSUME NEW c \in Callers,
             Miss(c) \/ LoseRace(c) \/ PollAgain(c) \/ GiveUpWaiting(c) \/ Answered(c)
             \/ AttemptFails(c) \/ NextAttempt(c)
      PROVE  UNCHANGED Leased!vars
  BY <1>5, LockUntouched
    DEF Miss, LoseRace, PollAgain, Sleep, GiveUpWaiting, Answered, AttemptFails,
        NextAttempt, redis
<1>6. ASSUME NEW c \in Callers,
             PollHit(c) \/ FetchRaises(c) \/ Update(c) \/ Crash(c)
      PROVE  [Leased!Next]_(Leased!vars)
  <2>1. lock' = lock /\ (Leave(c) \/ Finish(c))
    BY <1>6 DEF PollHit, FetchRaises, Update, Store, StoreFails, Crash, redis
  <2>2. locked' = locked \/ Leave(c)
    BY <2>1 DEF Finish
  <2>3. QED
    BY <2>1, <2>2, LeaveIsDie, LockUntouched
<1>7. QED
  BY <1>1, <1>2, <1>3, <1>4, <1>5, <1>6 DEF Next, Lock, Wait, Fetch

\* The single-flight lock is a LeasedLock, for any number of callers and any
\* times: taken when it is free, given back by its owner or by its TTL, and never
\* touched by a caller that has lost it or never had it.
THEOREM ImplementsLease == Spec => LeaseSpec
<1>1. Init => Leased!Init
  BY DEF Init, Leased!Init
<1>2. QED
  BY <1>1, LeaseStep, FinallyHolds, TypeCorrect, PTL
    DEF Spec, LeaseSpec, Leased!Spec
=============================================================================
