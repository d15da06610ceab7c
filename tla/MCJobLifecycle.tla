--------------------------- MODULE MCJobLifecycle ---------------------------
(* JobLifecycle on a few jobs, task ids and workers. *)
EXTENDS JobLifecycle, TLC

CONSTANTS j1, q1, q2, c1, c2, t1, t2, w1, w2

OneJob     == {j1}
OneQuery   == {q1}
TwoQueries == {q1, q2}
OneCaller  == {c1}
TwoCallers == {c1, c2}
TwoTasks   == {t1, t2}
TwoWorkers == {w1, w2}

AnyFault          == Faults
RecordingFails    == {"record"}
\* The faults after which the code promises an end, and that it counts, and the
\* one that may take the end away.
NothingStrands    == {"enqueue", "claim", "dead_letter", "on_failure"}

\* Tasks, queries, callers and workers are interchangeable; used only by runs
\* without liveness properties.
Symmetry ==
  Permutations(Tasks) \cup Permutations(Workers)
    \cup Permutations(Callers) \cup Permutations(Queries)
=============================================================================
