------------------------- MODULE ExactlyOnceEffect -------------------------
(***************************************************************************)
(* What docs/ARCHITECTURE.md calls "exactly-once effect on at-least-once   *)
(* delivery", seen from outside: a job is worked on by one worker at a     *)
(* time, any number of attempts may come to nothing, and at most one of    *)
(* them leaves a result, after which nobody works on the job again.        *)
(*                                                                         *)
(* A job in lapsed has lost the promise: anything may happen to it, and    *)
(* only to it.                                                             *)
(***************************************************************************)
CONSTANTS Jobs, Workers

VARIABLES
  owners, \* who is working on each job
  done,   \* jobs whose result is stored
  lapsed  \* jobs the promise no longer covers

vars == <<owners, done, lapsed>>

Init ==
  /\ owners = [j \in Jobs |-> {}]
  /\ done = {}
  /\ lapsed = {}

Start(j, w) ==
  /\ owners[j] = {}
  /\ j \notin done
  /\ owners' = [owners EXCEPT ![j] = {w}]
  /\ UNCHANGED <<done, lapsed>>

Finish(j, w) ==
  /\ owners[j] = {w}
  /\ owners' = [owners EXCEPT ![j] = {}]
  /\ done' = done \cup {j}
  /\ UNCHANGED lapsed

Abandon(j, w) ==
  /\ owners[j] = {w}
  /\ owners' = [owners EXCEPT ![j] = {}]
  /\ UNCHANGED <<done, lapsed>>

\* The promise is lost for j, or was before.
Lapse(j) ==
  /\ lapsed' = lapsed \cup {j}
  /\ \E W \in SUBSET Workers : owners' = [owners EXCEPT ![j] = W]
  /\ done' \in {done \cup {j}, done \ {j}}

Next ==
  \E j \in Jobs :
    \/ \E w \in Workers : Start(j, w) \/ Finish(j, w) \/ Abandon(j, w)
    \/ Lapse(j)

Spec == Init /\ [][Next]_vars
=============================================================================
