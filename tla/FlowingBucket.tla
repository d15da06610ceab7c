--------------------------- MODULE FlowingBucket ----------------------------
(* A token bucket as one pictures it: it fills by a unit with every tick,   *)
(* up to its capacity, whether anybody looks or not; a request that finds a *)
(* token takes it, and one that does not takes nothing.                     *)
(*                                                                          *)
(* The one departure is the clock: a call may leave the bucket up to half a *)
(* grain ahead of it, or stop the flow for as long.                         *)
EXTENDS Integers

CONSTANTS
    Capacity,  \* what the bucket holds
    Cost,      \* what a request takes
    HalfGrain  \* how far a call may move the clock of the bucket

VARIABLES
    level,  \* what is in the bucket
    lag     \* ticks until it flows again

vars == <<level, lag>>

UpToFull(n) == IF n < Capacity THEN n ELSE Capacity

Init ==
    /\ level = Capacity
    /\ lag = 0

Flow ==
    IF lag > 0 THEN lag' = lag - 1 /\ UNCHANGED level
    ELSE level' = UpToFull(level + 1) /\ UNCHANGED lag

(* A call has left this much, and moved the clock of the bucket. *)
Leaves(left) ==
    \/ \E ahead \in 0..HalfGrain : level' = UpToFull(left + ahead) /\ lag' = 0
    \/ level' = left /\ lag' \in 1..HalfGrain

Serve == level >= Cost /\ Leaves(level - Cost)
Refuse == level < Cost /\ Leaves(level)

Next == Flow \/ Serve \/ Refuse

Spec == Init /\ [][Next]_vars
=============================================================================
