---------------------------- MODULE TokenBucket ----------------------------
(* The rate limiter's bucket of one identity: a Redis hash that a Lua       *)
(* script reads, refills, charges and writes back as one step, for all API  *)
(* replicas, on Redis's own clock.                                          *)
(*                                                                          *)
(* Time is counted in ticks of Redis's TIME, and tokens in what one tick    *)
(* refills, so that a token is Cost units (1 / refill_per_second).  The     *)
(* script writes last_refill with Lua's tostring, which keeps 14 digits:    *)
(* the stored time is the nearest multiple of Grain ticks (0.1 ms for       *)
(* today's dates, where TIME counts microseconds).                          *)
EXTENDS Integers

CONSTANTS
    Capacity,   \* RATE_LIMIT_BUCKET_CAPACITY, in units
    Cost,       \* one token, in units
    Second,     \* one second, in ticks
    HalfGrain,  \* half the grain of the stored time, in ticks
    Ttl,        \* RATE_LIMIT_KEY_TTL_SECONDS, in ticks
    MaxTime,    \* bound: ticks of the clock
    MaxCalls    \* bound: calls of the script

\* A request fits in the bucket, and a key outlives a full refill
\* ("well after that", config.py).
ASSUME BucketAssumption ==
    /\ Capacity \in Nat /\ Cost \in Nat \ {0} /\ Cost <= Capacity
    /\ Second \in Nat \ {0} /\ HalfGrain \in Nat \ {0}
    /\ Ttl \in Nat /\ Ttl >= Capacity + HalfGrain
    /\ MaxTime \in Nat /\ MaxCalls \in Nat

VARIABLES
    now,         \* Redis's clock
    tokens,      \* the hash's "tokens" field
    last_refill, \* the hash's "last_refill" field
    expires,     \* when the key expires; the key is absent from then on
    calls        \* calls of the script so far

(* What an observer remembers. *)
VARIABLES
    since,       \* when it began to count
    spent,       \* units spent since then
    slack,       \* what the rounding of times may have minted since then
    promise,     \* the end of the oldest Retry-After with nobody served after it, or 0
    blur         \* what the rounding may have taken since that promise

bucket == <<tokens, last_refill, expires>>
watch == <<since, spent, slack, promise, blur>>
vars == <<now, bucket, calls, watch>>

Init ==
    /\ now = 0 /\ calls = 0
    /\ tokens = 0 /\ last_refill = 0 /\ expires = 0
    /\ since = 0 /\ spent = 0 /\ slack = 0
    /\ promise = 0 /\ blur = 0

----------------------------------------------------------------------------
Absent == now >= expires
Least(a, b) == IF a < b THEN a ELSE b
Most(a, b) == IF a < b THEN b ELSE a

(* tostring(now): the nearest multiple of the grain. *)
Stored(t) == ((t + HalfGrain) \div (2 * HalfGrain)) * (2 * HalfGrain)

\* Mutant of Level: a stored time ahead of the clock counts against the bucket.
LevelBackwards ==
    IF Absent THEN Capacity ELSE Least(Capacity, tokens + (now - last_refill))

(* The tokens the script finds: a full bucket under a missing key, else     *)
(* what was left and what has flowed in since, up to the capacity.  A       *)
(* stored time that was rounded up may lie ahead of the clock.              *)
Level ==
    IF Absent THEN Capacity
    ELSE IF now > last_refill THEN Least(Capacity, tokens + (now - last_refill))
    ELSE tokens

\* Mutant of WriteBack: last_refill is only written with a new key.
WriteBackTokens(left) ==
    /\ tokens' = left
    /\ last_refill' = IF Absent THEN Stored(now) ELSE last_refill
    /\ expires' = now + Ttl
    /\ calls < MaxCalls /\ calls' = calls + 1
    /\ slack' = slack + HalfGrain
    /\ UNCHANGED <<now, since>>

(* HSET and EXPIRE, whatever the verdict. *)
WriteBack(left) ==
    /\ tokens' = left
    /\ last_refill' = Stored(now)
    /\ expires' = now + Ttl
    /\ calls < MaxCalls /\ calls' = calls + 1
    /\ slack' = slack + HalfGrain
    /\ UNCHANGED <<now, since>>

(* enforce_rate_limit lets the request through. *)
Allow ==
    /\ Level >= Cost
    /\ WriteBack(Level - Cost)
    /\ spent' = spent + Cost
    /\ promise' = 0 /\ blur' = 0

\* Mutant of RetryAfter: rounded down.
RetryAfterFloored == Most(Second, ((Cost - Level) \div Second) * Second)

(* Retry-After: what is missing, in whole seconds and at least one. *)
RetryAfter ==
    Most(Second, ((Cost - Level + Second - 1) \div Second) * Second)

(* 429.  A request that is refused costs nothing. *)
Refuse ==
    /\ Level < Cost
    /\ WriteBack(Level)
    /\ promise' = IF promise = 0 THEN now + RetryAfter ELSE promise
    /\ blur' = blur + HalfGrain
    /\ UNCHANGED spent

Tick ==
    /\ now < MaxTime
    /\ now' = now + 1
    /\ UNCHANGED <<bucket, calls, watch>>

(* The observer starts to count anew, at any time. *)
Watch ==
    /\ since' = now /\ spent' = 0 /\ slack' = 0
    /\ UNCHANGED <<now, bucket, calls, promise, blur>>

Next == Allow \/ Refuse \/ Tick \/ Watch

Spec == Init /\ [][Next]_vars

----------------------------------------------------------------------------
(* The variables have their types; a bucket never holds more than its       *)
(* capacity nor less than nothing.                                          *)
TypeOK ==
    /\ now \in Nat /\ calls \in 0..MaxCalls
    /\ tokens \in 0..Capacity /\ last_refill \in Nat /\ expires \in Nat
    /\ since \in 0..now /\ spent \in Nat /\ slack \in Nat
    /\ promise \in Nat /\ blur \in Nat

(* What a token bucket promises: in any stretch of time, wherever it starts *)
(* and however many replicas call, an identity is served at most a full     *)
(* bucket and what flows in meanwhile, but for half a grain of the stored   *)
(* clock per call; a key that expires is worth no more than one that does   *)
(* not.                                                                     *)
ServesNoMoreThanTheRate == spent <= Capacity + (now - since) + slack

(* Retry-After of enforce_rate_limit: a caller that was refused and waits   *)
(* that long is served, unless another one was served before it; callers    *)
(* that are refused in between cost it no more than half a grain each.      *)
RetryAfterSuffices == promise > 0 /\ now >= promise + blur => Level >= Cost

(* Nobody fills the bucket: the script works out at each call what would    *)
(* have flowed in, from a time it has rounded, under a key that may be      *)
(* gone.  It serves and refuses as a bucket would that is filled all along: *)
(* neither a call, nor a refusal, nor the expiry of the key moves its level *)
(* by more than the rounding.                                               *)
Flowing == INSTANCE FlowingBucket WITH
    Capacity  <- Capacity,
    Cost      <- Cost,
    HalfGrain <- HalfGrain,
    level     <- Level,
    lag       <- IF Absent \/ now >= last_refill THEN 0 ELSE last_refill - now

FlowSpec == Flowing!Spec
=============================================================================
