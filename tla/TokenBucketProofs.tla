------------------------- MODULE TokenBucketProofs -------------------------
(* The rate and the honesty of Retry-After, for every capacity, refill      *)
(* rate, TTL and clock grain the assumption allows.                         *)
EXTENDS TokenBucket, TLAPS

----------------------------------------------------------------------------
(* Euclidean division. *)
LEMMA Division ==
  ASSUME NEW a \in Nat, NEW b \in Nat \ {0}
  PROVE  a \div b \in Nat /\ a % b \in 0..(b - 1) /\ a = (a \div b) * b + (a % b)
<1>1. a \div b \in Nat
  OBVIOUS
<1>2. a % b \in 0..(b - 1)
  OBVIOUS
<1>3. a = (a \div b) * b + (a % b)
  OBVIOUS
<1>4. QED
  BY <1>1, <1>2, <1>3

LEMMA Products == \A x, y \in Nat : x * y \in Nat
  OBVIOUS

(* Rounding to the grain moves a time by at most half of it. *)
LEMMA Rounding ==
  ASSUME NEW t \in Nat
  PROVE  /\ Stored(t) \in Nat
         /\ t - HalfGrain <= Stored(t)
         /\ Stored(t) <= t + HalfGrain
<1> DEFINE g == 2 * HalfGrain
           q == (t + HalfGrain) \div g
           r == (t + HalfGrain) % g
           p == q * g
<1>1. g \in Nat \ {0} /\ t + HalfGrain \in Nat /\ HalfGrain \in Nat /\ g = HalfGrain + HalfGrain
  BY BucketAssumption
<1>2. q \in Nat /\ r \in 0..(g - 1) /\ t + HalfGrain = p + r
  <2> HIDE DEF g
  <2>1. QED
    BY <1>1, Division
<1>3. p \in Nat
  <2> HIDE DEF g, q
  <2>1. QED
    BY <1>1, <1>2, Products
<1>4. Stored(t) = p
  BY DEF Stored
<1>5. QED
  <2> HIDE DEF g, q, r, p
  <2>1. QED
    BY <1>1, <1>2, <1>3, <1>4

(* Retry-After covers what is missing, and is never less than a second. *)
LEMMA RetryCovers ==
  ASSUME Cost - Level \in Nat
  PROVE  RetryAfter \in Nat /\ RetryAfter >= Second /\ RetryAfter >= Cost - Level
<1> DEFINE m == Cost - Level
           a == m + Second - 1
           q == a \div Second
           r == a % Second
           p == q * Second
<1>1. m \in Nat /\ Second \in Nat \ {0} /\ a \in Nat
  BY BucketAssumption
<1>2. q \in Nat /\ r \in 0..(Second - 1) /\ a = p + r
  <2> HIDE DEF a
  <2>1. QED
    BY <1>1, Division
<1>3. p \in Nat
  <2> HIDE DEF q
  <2>1. QED
    BY <1>1, <1>2, Products
<1>4. RetryAfter = Most(Second, p)
  BY DEF RetryAfter
<1>5. p >= m
  <2> HIDE DEF p, q, r, m
  <2>1. QED
    BY <1>1, <1>2, <1>3
<1>6. QED
  <2> HIDE DEF p
  <2>1. QED
    BY <1>1, <1>3, <1>4, <1>5 DEF Most

----------------------------------------------------------------------------
(* What the script finds lies between nothing and a full bucket. *)
LEMMA LevelBounds == TypeOK => Level \in 0..Capacity
  BY BucketAssumption DEF TypeOK, Level, Absent, Least

LEMMA RefillBounds ==
  \A left \in 0..Capacity, t, u \in Nat : t > u => Least(Capacity, left + (t - u)) \in 0..Capacity
  BY BucketAssumption DEF Least

LEMMA NextLevelBounds == TypeOK' => Level' \in 0..Capacity
<1> SUFFICES ASSUME TypeOK' PROVE Level' \in 0..Capacity
  OBVIOUS
<1> USE BucketAssumption DEF TypeOK
<1>1. CASE Absent'
  BY <1>1 DEF Level
<1>2. CASE ~Absent' /\ now' > last_refill'
  <2>1. Level' = Least(Capacity, tokens' + (now' - last_refill'))
    BY <1>2 DEF Level, Least
  <2>2. now' > last_refill'
    BY <1>2
  <2>3. tokens' \in 0..Capacity /\ now' \in Nat /\ last_refill' \in Nat
    OBVIOUS
  <2>4. QED
    BY <2>1, <2>2, <2>3, RefillBounds
<1>3. CASE ~Absent' /\ ~(now' > last_refill')
  BY <1>3 DEF Level
<1>4. QED
  BY <1>1, <1>2, <1>3

LEMMA TypeStep == TypeOK /\ [Next]_vars => TypeOK'
<1> SUFFICES ASSUME TypeOK, [Next]_vars PROVE TypeOK'
  OBVIOUS
<1> USE BucketAssumption
<1>1. Level \in 0..Capacity
  BY LevelBounds
<1>2. Stored(now) \in Nat
  BY Rounding DEF TypeOK
<1>3. CASE Allow
  BY <1>1, <1>2, <1>3 DEF Allow, WriteBack, TypeOK
<1>4. CASE Refuse
  <2>1. RetryAfter \in Nat
    BY <1>1, <1>4, RetryCovers DEF Refuse
  <2>2. QED
    BY <1>1, <1>2, <1>4, <2>1 DEF Refuse, WriteBack, TypeOK
<1>5. CASE Tick
  BY <1>5 DEF Tick, bucket, watch, TypeOK
<1>6. CASE Watch
  BY <1>6 DEF Watch, bucket, TypeOK
<1>7. CASE UNCHANGED vars
  BY <1>7 DEF vars, bucket, watch, TypeOK
<1>8. QED
  BY <1>3, <1>4, <1>5, <1>6, <1>7 DEF Next

(* The types of the bucket: never more than its capacity, never in debt. *)
THEOREM TypeCorrect == Spec => []TypeOK
<1>1. Init => TypeOK
  BY BucketAssumption DEF Init, TypeOK
<1>2. QED
  BY <1>1, TypeStep, PTL DEF Spec

----------------------------------------------------------------------------
(* The stored time is the clock's at the last call, but for half a grain,   *)
(* and the key lasts a full refill beyond it.                               *)
KeyOutlivesRefill == expires > 0 => expires >= last_refill - HalfGrain + Ttl

(* What was spent and what could be spent at once come from a full bucket   *)
(* and the refill.                                                          *)
Books == spent + Level <= Capacity + (now - since) + slack

(* Once the promised time has come, what the bucket holds is enough. *)
PromiseKept ==
    promise > 0 => Absent \/ tokens + (promise + blur - last_refill) >= Cost

Inv == KeyOutlivesRefill /\ Books /\ PromiseKept

(* How far a call raises the level of the same instant: by the rounding of  *)
(* the stored time.                                                         *)
LEMMA LevelAfterCall ==
  ASSUME TypeOK, NEW left \in 0..Capacity, WriteBack(left)
  PROVE  Level' <= left + HalfGrain /\ ~Absent'
<1> USE BucketAssumption
<1>1. /\ Stored(now) \in Nat /\ Stored(now) >= now - HalfGrain
  BY Rounding DEF TypeOK
<1>2. now' = now /\ tokens' = left /\ last_refill' = Stored(now) /\ expires' = now + Ttl
  BY DEF WriteBack
<1>3. ~Absent'
  BY <1>2 DEF Absent, TypeOK
<1>4. CASE now' > last_refill'
  <2>1. Level' = Least(Capacity, left + (now - Stored(now)))
    BY <1>2, <1>3, <1>4 DEF Level, Least
  <2>2. QED
    BY <1>1, <1>3, <2>1 DEF Least, TypeOK
<1>5. CASE ~(now' > last_refill')
  <2>1. Level' = left
    BY <1>2, <1>3, <1>5 DEF Level
  <2>2. QED
    BY <1>3, <2>1 DEF TypeOK
<1>6. QED
  BY <1>4, <1>5

(* A tick raises the level by at most one unit, also when the key expires:  *)
(* by then the bucket has filled up anyway.                                 *)
LEMMA LevelAfterTick ==
  ASSUME TypeOK, KeyOutlivesRefill, Tick
  PROVE  Level' <= Level + 1
<1> USE BucketAssumption
<1>1. /\ now' = now + 1 /\ tokens' = tokens /\ last_refill' = last_refill
      /\ expires' = expires
  BY DEF Tick, bucket
<1>2. Level' \in 0..Capacity
  <2>1. TypeOK'
    BY TypeStep DEF Next
  <2>2. QED
    BY <2>1, <1>1 DEF TypeOK, Level, Absent, Least
<1>3. CASE Absent
  BY <1>2, <1>3 DEF Level
<1>4. CASE ~Absent /\ Absent'
  <2>1. now + 1 = expires /\ expires > 0
    BY <1>1, <1>4 DEF Absent, TypeOK
  <2>2. now - last_refill >= Capacity - 1
    BY <2>1 DEF KeyOutlivesRefill, TypeOK
  <2>3. Level >= Capacity - 1
    BY <1>4, <2>2 DEF Level, Least, TypeOK
  <2>4. QED
    BY <1>2, <2>3, LevelBounds
<1>5. CASE ~Absent /\ ~Absent'
  BY <1>1, <1>5 DEF Level, Least, TypeOK
<1>6. QED
  BY <1>3, <1>4, <1>5

LEMMA KeyStep == TypeOK /\ KeyOutlivesRefill /\ [Next]_vars => KeyOutlivesRefill'
<1> SUFFICES ASSUME TypeOK, KeyOutlivesRefill, [Next]_vars PROVE KeyOutlivesRefill'
  OBVIOUS
<1> USE BucketAssumption
<1>1. ASSUME NEW left \in 0..Capacity, WriteBack(left) PROVE KeyOutlivesRefill'
  <2>1. Stored(now) \in Nat /\ Stored(now) <= now + HalfGrain
    BY Rounding DEF TypeOK
  <2>2. QED
    BY <1>1, <2>1 DEF WriteBack, KeyOutlivesRefill, TypeOK
<1>2. Level \in 0..Capacity
  BY LevelBounds
<1>3. CASE Allow
  BY <1>1, <1>2, <1>3 DEF Allow
<1>4. CASE Refuse
  BY <1>1, <1>2, <1>4 DEF Refuse
<1>5. CASE Tick \/ Watch \/ UNCHANGED vars
  BY <1>5 DEF Tick, Watch, vars, bucket, KeyOutlivesRefill
<1>6. QED
  BY <1>3, <1>4, <1>5 DEF Next

LEMMA BooksStep == TypeOK /\ KeyOutlivesRefill /\ Books /\ [Next]_vars => Books'
<1> SUFFICES ASSUME TypeOK, KeyOutlivesRefill, Books, [Next]_vars PROVE Books'
  OBVIOUS
<1> USE BucketAssumption
<1> DEFINE level == Level'
<1>1. Level \in 0..Capacity
  BY LevelBounds
<1>2. TypeOK'
  BY TypeStep
<1>3. level \in 0..Capacity
  BY <1>2, NextLevelBounds
<1> SUFFICES spent' + level <= Capacity + (now' - since') + slack'
  BY DEF Books
<1> HIDE DEF level
<1>4. CASE Allow
  <2>1. Level - Cost \in 0..Capacity /\ WriteBack(Level - Cost)
    BY <1>1, <1>4 DEF Allow
  <2>2. level <= Level - Cost + HalfGrain
    BY <2>1, LevelAfterCall DEF level
  <2>3. spent' = spent + Cost /\ slack' = slack + HalfGrain /\ now' = now /\ since' = since
    BY <1>4 DEF Allow, WriteBack
  <2>4. QED
    BY <1>1, <1>3, <2>2, <2>3 DEF Books, TypeOK
<1>5. CASE Refuse
  <2>1. level <= Level + HalfGrain
    BY <1>1, <1>5, LevelAfterCall DEF Refuse, level
  <2>2. spent' = spent /\ slack' = slack + HalfGrain /\ now' = now /\ since' = since
    BY <1>5 DEF Refuse, WriteBack
  <2>3. QED
    BY <1>1, <1>3, <2>1, <2>2 DEF Books, TypeOK
<1>6. CASE Tick
  <2>1. level <= Level + 1
    BY <1>6, LevelAfterTick DEF level
  <2>2. spent' = spent /\ slack' = slack /\ now' = now + 1 /\ since' = since
    BY <1>6 DEF Tick, watch
  <2>3. QED
    BY <1>1, <1>3, <2>1, <2>2 DEF Books, TypeOK
<1>7. CASE Watch
  <2>1. spent' = 0 /\ slack' = 0 /\ since' = now /\ now' = now
    BY <1>7 DEF Watch
  <2>2. QED
    BY <1>3, <2>1 DEF Books, TypeOK
<1>8. CASE UNCHANGED vars
  <2>1. level = Level
    BY <1>8 DEF level, vars, bucket, Level, Absent
  <2>2. QED
    BY <1>8, <2>1 DEF vars, watch, Books, TypeOK
<1>9. QED
  BY <1>4, <1>5, <1>6, <1>7, <1>8 DEF Next

LEMMA PromiseStep == TypeOK /\ PromiseKept /\ [Next]_vars => PromiseKept'
<1> SUFFICES ASSUME TypeOK, PromiseKept, [Next]_vars PROVE PromiseKept'
  OBVIOUS
<1> USE BucketAssumption
<1>1. CASE Allow
  BY <1>1 DEF Allow, PromiseKept
<1>2. CASE Refuse
  <2>1. Level \in 0..Capacity /\ Level < Cost /\ ~Absent
    BY <1>2, LevelBounds DEF Refuse, Level
  <2>2. Stored(now) \in Nat /\ Stored(now) <= now + HalfGrain
    BY Rounding DEF TypeOK
  <2>3. RetryAfter \in Nat /\ RetryAfter >= Cost - Level
    BY <2>1, RetryCovers
  <2>4. tokens' = Level /\ last_refill' = Stored(now) /\ blur' = blur + HalfGrain
    BY <1>2 DEF Refuse, WriteBack
  <2>5. CASE promise = 0
    <3>1. promise' = now + RetryAfter
      BY <1>2, <2>5 DEF Refuse
    <3>2. QED
      BY <2>1, <2>2, <2>3, <2>4, <3>1 DEF PromiseKept, TypeOK
  <2>6. CASE promise # 0
    <3>1. promise' = promise
      BY <1>2, <2>6 DEF Refuse
    <3>2. tokens + (promise + blur - last_refill) >= Cost
      BY <2>1, <2>6 DEF PromiseKept, TypeOK
    <3>3. Level >= tokens + (now - last_refill)
      BY <2>1 DEF Level, Least, TypeOK
    <3>4. QED
      BY <2>1, <2>2, <2>4, <3>1, <3>2, <3>3 DEF PromiseKept, TypeOK
  <2>7. QED
    BY <2>5, <2>6
<1>3. CASE Tick
  BY <1>3 DEF Tick, bucket, watch, PromiseKept, Absent, TypeOK
<1>4. CASE Watch \/ UNCHANGED vars
  BY <1>4 DEF Watch, vars, bucket, watch, PromiseKept, Absent
<1>5. QED
  BY <1>1, <1>2, <1>3, <1>4 DEF Next

LEMMA Invariant == Spec => []Inv
<1>1. Init => Inv
  BY BucketAssumption DEF Init, Inv, KeyOutlivesRefill, Books, PromiseKept, Level, Absent
<1>2. TypeOK /\ Inv /\ [Next]_vars => Inv'
  BY KeyStep, BooksStep, PromiseStep DEF Inv
<1>3. QED
  BY <1>1, <1>2, TypeCorrect, PTL DEF Spec

(* consume_token, for any capacity, refill rate and TTL: whoever calls, and *)
(* whenever one starts to count, an identity is served at most a full       *)
(* bucket and the refill since, up to the rounding of the stored clock.     *)
THEOREM RateHolds == Spec => []ServesNoMoreThanTheRate
<1>1. TypeOK /\ Inv => ServesNoMoreThanTheRate
  BY LevelBounds, BucketAssumption DEF Inv, Books, ServesNoMoreThanTheRate, TypeOK
<1>2. QED
  BY <1>1, TypeCorrect, Invariant, PTL

(* enforce_rate_limit's Retry-After, for any rounding up to whole seconds:  *)
(* it is long enough, whatever other refused callers do in the meantime.    *)
THEOREM RetryAfterHolds == Spec => []RetryAfterSuffices
<1>1. TypeOK /\ Inv => RetryAfterSuffices
  <2> SUFFICES ASSUME TypeOK, Inv, promise > 0, now >= promise + blur PROVE Level >= Cost
    BY DEF RetryAfterSuffices
  <2>1. CASE Absent
    BY <2>1, BucketAssumption DEF Level
  <2>2. CASE ~Absent
    <3>1. tokens + (now - last_refill) >= Cost
      BY <2>2, BucketAssumption DEF Inv, PromiseKept, Absent, TypeOK
    <3>2. QED
      BY <2>2, <3>1, BucketAssumption DEF Level, Least, TypeOK
  <2>3. QED
    BY <2>1, <2>2
<1>2. QED
  BY <1>1, TypeCorrect, Invariant, PTL
----------------------------------------------------------------------------
Lag == IF Absent \/ now >= last_refill THEN 0 ELSE last_refill - now
Full(n) == IF n < Capacity THEN n ELSE Capacity

(* The bucket a call finds in the same instant, after it has written back:  *)
(* ahead of what was left, or waiting for the clock.                        *)
LEMMA CallLeaves ==
  ASSUME TypeOK, NEW left \in 0..Capacity, WriteBack(left)
  PROVE  Flowing!Leaves(left)
<1> USE BucketAssumption
<1> DEFINE t == Stored(now)
<1>1. t \in Nat /\ t >= now - HalfGrain /\ t <= now + HalfGrain
  BY Rounding DEF TypeOK
<1>2. now' = now /\ tokens' = left /\ last_refill' = t /\ expires' = now + Ttl
  BY DEF WriteBack
<1> HIDE DEF t
<1>3. ~Absent'
  BY <1>2 DEF Absent, TypeOK
<1>4. CASE now > t
  <2>1. Level' = Least(Capacity, left + (now - t))
    BY <1>2, <1>3, <1>4 DEF Level, Least
  <2>2. now - t \in 0..HalfGrain
    BY <1>1, <1>4 DEF TypeOK
  <2>3. Level' = Full(left + (now - t))
    BY <2>1, <2>2 DEF Least, Full, TypeOK
  <2>4. Lag' = 0
    BY <1>1, <1>2, <1>4 DEF Lag, TypeOK
  <2>5. QED
    BY <2>2, <2>3, <2>4 DEF Flowing!Leaves, Flowing!UpToFull, Full, Lag
<1>5. CASE now = t
  <2>1. Level' = left
    BY <1>1, <1>2, <1>3, <1>5 DEF Level, TypeOK
  <2>2. Level' = Full(left + 0) /\ 0 \in 0..HalfGrain
    BY <2>1 DEF Full
  <2>3. Lag' = 0
    BY <1>1, <1>2, <1>5 DEF Lag, TypeOK
  <2>4. QED
    BY <2>2, <2>3 DEF Flowing!Leaves, Flowing!UpToFull, Full, Lag
<1>6. CASE now < t
  <2>1. Level' = left
    BY <1>1, <1>2, <1>3, <1>6 DEF Level, TypeOK
  <2>2. Lag' = t - now
    BY <1>1, <1>2, <1>3, <1>6 DEF Lag, TypeOK
  <2>3. t - now \in 1..HalfGrain
    BY <1>1, <1>6 DEF TypeOK
  <2>4. QED
    BY <2>1, <2>2, <2>3 DEF Flowing!Leaves, Lag
<1>7. QED
  BY <1>1, <1>4, <1>5, <1>6 DEF TypeOK

(* A tick of the clock is a tick of the flow, and so is one at which the    *)
(* key expires: by then the bucket has one unit to go at most.              *)
LEMMA TickFlows ==
  ASSUME TypeOK, KeyOutlivesRefill, Tick
  PROVE  Flowing!Flow
<1> USE BucketAssumption
<1>1. /\ now' = now + 1 /\ tokens' = tokens /\ last_refill' = last_refill
      /\ expires' = expires
  BY DEF Tick, bucket
<1>2. Level \in 0..Capacity
  BY LevelBounds
<1>3. CASE Absent
  <2>1. Absent'
    BY <1>1, <1>3 DEF Absent, TypeOK
  <2>2. Level = Capacity /\ Level' = Capacity /\ Lag = 0 /\ Lag' = 0
    BY <1>3, <2>1 DEF Level, Lag
  <2>3. QED
    BY <2>2 DEF Flowing!Flow, Flowing!UpToFull, Lag
<1>4. CASE ~Absent /\ Absent'
  <2>1. now + 1 = expires /\ expires > 0
    BY <1>1, <1>4 DEF Absent, TypeOK
  <2>2. now - last_refill >= Capacity - 1
    BY <2>1 DEF KeyOutlivesRefill, TypeOK
  <2>3. Level >= Capacity - 1
    BY <1>4, <2>2 DEF Level, Least, TypeOK
  <2>4. Lag = 0 /\ Lag' = 0 /\ Level' = Capacity
    BY <1>4, <2>2 DEF Lag, Level, TypeOK
  <2>5. Level' = Full(Level + 1)
    BY <1>2, <2>3, <2>4 DEF Full
  <2>6. QED
    BY <2>4, <2>5 DEF Flowing!Flow, Flowing!UpToFull, Full, Lag
<1>5. CASE ~Absent /\ ~Absent' /\ now >= last_refill
  <2>1. Level = Least(Capacity, tokens + (now - last_refill))
    BY <1>5 DEF Level, Least, TypeOK
  <2>2. Level' = Least(Capacity, tokens + (now + 1 - last_refill))
    BY <1>1, <1>5 DEF Level, Least, TypeOK
  <2>3. Level' = Full(Level + 1)
    BY <2>1, <2>2 DEF Least, Full, TypeOK
  <2>4. Lag = 0 /\ Lag' = 0
    BY <1>1, <1>5 DEF Lag, TypeOK
  <2>5. QED
    BY <2>3, <2>4 DEF Flowing!Flow, Flowing!UpToFull, Full, Lag
<1>6. CASE ~Absent /\ ~Absent' /\ now < last_refill
  <2>1. Level = tokens /\ Level' = tokens
    BY <1>1, <1>6 DEF Level, TypeOK
  <2>2. Lag = last_refill - now /\ Lag > 0 /\ Lag' = Lag - 1
    BY <1>1, <1>6 DEF Lag, TypeOK
  <2>3. QED
    BY <2>1, <2>2 DEF Flowing!Flow, Lag
<1>7. QED
  BY <1>3, <1>4, <1>5, <1>6 DEF TypeOK

LEMMA FlowStep ==
  TypeOK /\ KeyOutlivesRefill /\ [Next]_vars => [Flowing!Next]_(Flowing!vars)
<1> SUFFICES ASSUME TypeOK, KeyOutlivesRefill, [Next]_vars
             PROVE  [Flowing!Next]_(Flowing!vars)
  OBVIOUS
<1> USE BucketAssumption
<1>1. Level \in 0..Capacity
  BY LevelBounds
<1>2. CASE Allow
  <2>1. Level - Cost \in 0..Capacity /\ WriteBack(Level - Cost)
    BY <1>1, <1>2 DEF Allow
  <2>2. Flowing!Serve
    BY <1>2, <2>1, CallLeaves DEF Allow, Flowing!Serve
  <2>3. QED
    BY <2>2 DEF Flowing!Next
<1>3. CASE Refuse
  <2>1. Flowing!Refuse
    BY <1>1, <1>3, CallLeaves DEF Refuse, Flowing!Refuse
  <2>2. QED
    BY <2>1 DEF Flowing!Next
<1>4. CASE Tick
  BY <1>4, TickFlows DEF Flowing!Next
<1>5. CASE Watch \/ UNCHANGED vars
  BY <1>5 DEF Watch, vars, bucket, Flowing!vars, Level, Absent
<1>6. QED
  BY <1>2, <1>3, <1>4, <1>5 DEF Next

(* Nobody fills the bucket between two calls, times are rounded and keys    *)
(* expire; all the same it is a bucket into which tokens flow all the time, *)
(* whatever its capacity, rate and TTL.                                     *)
THEOREM ImplementsFlowingBucket == Spec => FlowSpec
<1>1. Init => Flowing!Init
  BY DEF Init, Flowing!Init, Level, Absent
<1>2. Inv => KeyOutlivesRefill
  BY DEF Inv
<1>3. QED
  BY <1>1, <1>2, FlowStep, TypeCorrect, Invariant, PTL DEF Spec, FlowSpec, Flowing!Spec
=============================================================================
