-------------------------- MODULE RetrievalProofs --------------------------
(* What holds of the zoning knowledge base for every number of workers,     *)
(* operators and documents: the types, the lock and the lexical table of    *)
(* its re-indexing (KnowledgeSync), the fused ranking the agent is shown    *)
(* (HybridSearch), and the metrics that judge a ranking                     *)
(* (RetrievalEvaluation).                                                   *)
(*                                                                          *)
(* The operators the last two are built from go through lists one entry at  *)
(* a time.  What they compute for every list is shown without an induction  *)
(* rule: among the counterexamples of a set of numbers there would be a     *)
(* least one (LeastNat, Induction).                                         *)
EXTENDS RetrievalEvaluation, FiniteSetTheorems, WellFoundedInduction, TLAPS

----------------------------------------------------------------------------
(* No step takes a variable out of its type. *)
LEMMA TypeStep == SyncTypeOK /\ [SyncNext]_syncVars => SyncTypeOK'
<1> SUFFICES ASSUME SyncTypeOK, [SyncNext]_syncVars PROVE SyncTypeOK'
  OBVIOUS
<1> USE SyncAssumption DEF Syncs
<1>1. CASE AzureChange
  BY <1>1 DEF AzureChange, SyncTypeOK, Steps, Rows, Running
<1>2. CASE LockExpires
  BY <1>2 DEF LockExpires, SyncTypeOK, Steps, Rows, Running
<1>3. ASSUME NEW s \in Syncs, Start(s) PROVE SyncTypeOK'
  BY <1>3 DEF Start, SyncTypeOK, Steps, Rows, Running
<1>4. ASSUME NEW s \in Syncs, StartByHand(s) PROVE SyncTypeOK'
  BY <1>4 DEF StartByHand, SyncTypeOK, Steps, Rows, Running
<1>5. ASSUME NEW s \in Syncs, List(s) PROVE SyncTypeOK'
  BY <1>5 DEF List, SyncTypeOK, Steps, Rows, Running
<1>6. ASSUME NEW s \in Syncs, Read(s) PROVE SyncTypeOK'
  BY <1>6 DEF Read, SyncTypeOK, Steps, Rows, Running
<1>7. ASSUME NEW s \in Syncs, Delete(s) PROVE SyncTypeOK'
  BY <1>7 DEF Delete, OpenBeside, SyncTypeOK, Steps, Rows, Running
<1>8. ASSUME NEW s \in Syncs, Commit(s) PROVE SyncTypeOK'
  BY <1>8 DEF Commit, SyncTypeOK, Steps, Rows, Running
<1>9. ASSUME NEW s \in Syncs, Upload(s) PROVE SyncTypeOK'
  <2>1. dense' \in [Documents -> 0..MaxCopies]
    BY <1>9 DEF Upload, WithCopies, SyncTypeOK
  <2>2. QED
    BY <1>9, <2>1 DEF Upload, SyncTypeOK, Steps, Rows, Running
<1>10. ASSUME NEW s \in Syncs, UploadFails(s) PROVE SyncTypeOK'
  <2>1. dense' \in [Documents -> 0..MaxCopies]
    BY <1>10 DEF UploadFails, WithCopies, SyncTypeOK
  <2>2. QED
    BY <1>10, <2>1 DEF UploadFails, SyncTypeOK, Steps, Rows, Running
<1>11. ASSUME NEW s \in Syncs, Release(s) PROVE SyncTypeOK'
  BY <1>11 DEF Release, SyncTypeOK, Steps, Rows, Running
<1>12. ASSUME NEW s \in Syncs, Fails(s) PROVE SyncTypeOK'
  BY <1>12 DEF Fails, SyncTypeOK, Steps, Rows, Running
<1>13. ASSUME NEW s \in Syncs, Crash(s) PROVE SyncTypeOK'
  BY <1>13 DEF Crash, SyncTypeOK, Steps, Rows, Running
<1>14. CASE UNCHANGED syncVars
  BY <1>14 DEF syncVars, SyncTypeOK, Steps, Rows, Running
<1>15. QED
  BY <1>1, <1>2, <1>3, <1>4, <1>5, <1>6, <1>7, <1>8, <1>9, <1>10, <1>11, <1>12, <1>13, <1>14 DEF SyncNext, Proceed

(* The types of KnowledgeSync's variables: every copy count stays in its    *)
(* bound, only a task ever holds the lock, and a row names who wrote it.    *)
THEOREM TypeCorrect == SyncSpec => []SyncTypeOK
<1>1. SyncInit => SyncTypeOK
  BY SyncAssumption DEF SyncInit, SyncTypeOK, Syncs, Steps, Rows
<1>2. QED
  BY <1>1, TypeStep, PTL DEF SyncSpec

----------------------------------------------------------------------------
(* The lock is inductive by itself: Start finds it free, so no other task   *)
(* that still counts on it is running, and Release frees only its own.      *)
LEMMA LockStep ==
  SyncTypeOK /\ RunningTaskHoldsLock /\ [SyncNext]_syncVars => RunningTaskHoldsLock'
<1> SUFFICES ASSUME SyncTypeOK, RunningTaskHoldsLock, [SyncNext]_syncVars
             PROVE  RunningTaskHoldsLock'
  OBVIOUS
<1> USE SyncAssumption DEF Syncs
<1>1. CASE AzureChange
  BY <1>1 DEF AzureChange, RunningTaskHoldsLock, Running, SyncTypeOK
<1>2. CASE LockExpires
  BY <1>2 DEF LockExpires, RunningTaskHoldsLock, Running, SyncTypeOK
<1>3. ASSUME NEW s \in Syncs, Start(s) PROVE RunningTaskHoldsLock'
  BY <1>3 DEF Start, RunningTaskHoldsLock, Running, SyncTypeOK
<1>4. ASSUME NEW s \in Syncs, StartByHand(s) PROVE RunningTaskHoldsLock'
  BY <1>4 DEF StartByHand, RunningTaskHoldsLock, Running, SyncTypeOK
<1>5. ASSUME NEW s \in Syncs, List(s) PROVE RunningTaskHoldsLock'
  BY <1>5 DEF List, RunningTaskHoldsLock, Running, SyncTypeOK
<1>6. ASSUME NEW s \in Syncs, Read(s) PROVE RunningTaskHoldsLock'
  BY <1>6 DEF Read, RunningTaskHoldsLock, Running, SyncTypeOK
<1>7. ASSUME NEW s \in Syncs, Delete(s) PROVE RunningTaskHoldsLock'
  BY <1>7 DEF Delete, RunningTaskHoldsLock, Running, SyncTypeOK
<1>8. ASSUME NEW s \in Syncs, Commit(s) PROVE RunningTaskHoldsLock'
  BY <1>8 DEF Commit, RunningTaskHoldsLock, Running, SyncTypeOK
<1>9. ASSUME NEW s \in Syncs, Upload(s) PROVE RunningTaskHoldsLock'
  BY <1>9 DEF Upload, RunningTaskHoldsLock, Running, SyncTypeOK
<1>10. ASSUME NEW s \in Syncs, UploadFails(s) PROVE RunningTaskHoldsLock'
  BY <1>10 DEF UploadFails, RunningTaskHoldsLock, Running, SyncTypeOK
<1>11. ASSUME NEW s \in Syncs, Release(s) PROVE RunningTaskHoldsLock'
  BY <1>11 DEF Release, RunningTaskHoldsLock, Running, SyncTypeOK
<1>12. ASSUME NEW s \in Syncs, Fails(s) PROVE RunningTaskHoldsLock'
  BY <1>12 DEF Fails, RunningTaskHoldsLock, Running, SyncTypeOK
<1>13. ASSUME NEW s \in Syncs, Crash(s) PROVE RunningTaskHoldsLock'
  BY <1>13 DEF Crash, RunningTaskHoldsLock, Running, SyncTypeOK
<1>14. CASE UNCHANGED syncVars
  BY <1>14 DEF syncVars, RunningTaskHoldsLock, Running, SyncTypeOK
<1>15. QED
  BY <1>1, <1>2, <1>3, <1>4, <1>5, <1>6, <1>7, <1>8, <1>9, <1>10, <1>11, <1>12, <1>13, <1>14 DEF SyncNext, Proceed

(* worker.sync_knowledge_base's lock, for any number of workers: a task     *)
(* that runs and has not outlived its TTL is the holder, so two tasks run   *)
(* at once only when one of them has outlived it, whoever crashes, releases *)
(* late or starts the script by hand.                                       *)
THEOREM LockHolds == SyncSpec => []RunningTaskHoldsLock
<1>1. SyncInit => RunningTaskHoldsLock
  BY DEF SyncInit, RunningTaskHoldsLock, Running, Syncs
<1>2. QED
  BY <1>1, TypeCorrect, LockStep, PTL DEF SyncSpec

----------------------------------------------------------------------------
Inside == {s \in Scheduled : Running(s)}

(* What a step of a run that neither begins nor ends looks like to the lock. *)
LEMMA RunGoesOn ==
    ASSUME SyncTypeOK, NEW s \in Syncs, NEW p \in Steps, pc[s] # "idle", p # "idle",
           pc' = [pc EXCEPT ![s] = p], UNCHANGED <<lock, lapsed>>
    PROVE  UNCHANGED Leased!vars
  BY DEF SyncTypeOK, Leased!vars, Running, Syncs

(* A task's end and its death, one with the release script and one without; *)
(* a run by hand has neither key nor lease.                                 *)
LEMMA RunEnds ==
    ASSUME SyncTypeOK, NEW s \in Syncs, Running(s), Release(s) \/ Crash(s)
    PROVE  [Leased!Next]_(Leased!vars)
<1> USE SyncAssumption DEF SyncTypeOK, Syncs
<1>1. pc' = [pc EXCEPT ![s] = "idle"] /\ lapsed' = lapsed \ {s}
  BY DEF Release, Crash
<1>2. Inside' = Inside \ {s}
  BY <1>1 DEF Inside, Running
<1>3. CASE s \in Scheduled
  <2>1. s \in Inside
    BY <1>3 DEF Inside
  <2>2. CASE Release(s)
    BY <1>1, <1>2, <1>3, <2>1, <2>2 DEF Release, Leased!Next, Leased!Leave, Inside
  <2>3. CASE Crash(s)
    BY <1>1, <1>2, <1>3, <2>1, <2>3 DEF Crash, Leased!Next, Leased!Die, Inside
  <2>4. QED
    BY <2>2, <2>3
<1>4. CASE s \notin Scheduled
  <2>1. lock # s /\ s \notin lapsed /\ s \notin Inside
    BY <1>4 DEF Inside
  <2>2. lock' = lock /\ lapsed' = lapsed /\ Inside' = Inside
    BY <1>1, <1>2, <2>1 DEF Release, Crash
  <2>3. QED
    BY <2>2 DEF Leased!vars, Inside
<1>5. QED
  BY <1>3, <1>4

LEMMA LeaseStep ==
    SyncTypeOK /\ [SyncNext]_syncVars => [Leased!Next]_(Leased!vars)
<1> SUFFICES ASSUME SyncTypeOK, [SyncNext]_syncVars
             PROVE  [Leased!Next]_(Leased!vars)
  OBVIOUS
<1>1. ASSUME UNCHANGED <<pc, lock, lapsed>>
      PROVE  UNCHANGED Leased!vars
  BY <1>1 DEF Leased!vars, Running
<1>2. CASE AzureChange \/ UNCHANGED syncVars
  BY <1>1, <1>2 DEF AzureChange, syncVars
<1>3. CASE LockExpires
  <2>1. Inside' = Inside /\ lock \in Scheduled
    BY <1>3 DEF LockExpires, Inside, Running, SyncTypeOK
  <2>2. lapsed' = lapsed \cup ({lock} \cap Inside)
    BY <1>3, <2>1 DEF LockExpires, Inside
  <2>3. Leased!Lapse
    BY <1>3, <2>1, <2>2 DEF LockExpires, Leased!Lapse, Inside
  <2>4. QED
    BY <2>3 DEF Leased!Next
<1>4. ASSUME NEW s \in Syncs, Start(s)
      PROVE  Leased!Next
  <2>1. s \in Scheduled /\ s \notin Inside
    BY <1>4 DEF Start, Inside
  <2>2. Inside' = Inside \cup {s}
    BY <1>4, <2>1 DEF Start, Inside, Running, SyncTypeOK, Syncs
  <2>3. Leased!Enter(s)
    BY <1>4, <2>1, <2>2 DEF Start, Leased!Enter, Inside
  <2>4. QED
    BY <2>1, <2>3 DEF Leased!Next
<1>5. ASSUME NEW s \in Syncs, StartByHand(s)
      PROVE  UNCHANGED Leased!vars
  <2>1. \A t \in Scheduled : pc'[t] = pc[t]
    BY <1>5, SyncAssumption DEF StartByHand, SyncTypeOK, Syncs
  <2>2. QED
    BY <1>5, <2>1 DEF StartByHand, Leased!vars, Running
<1>6. ASSUME NEW s \in Syncs,
             List(s) \/ Read(s) \/ Delete(s) \/ Commit(s) \/ Upload(s) \/ UploadFails(s) \/ Fails(s)
      PROVE  UNCHANGED Leased!vars
  <2>1. /\ pc[s] # "idle"
        /\ \E p \in Steps \ {"idle"} : pc' = [pc EXCEPT ![s] = p]
        /\ UNCHANGED <<lock, lapsed>>
    BY <1>6 DEF List, Read, Delete, Commit, Upload, UploadFails, Fails, Steps
  <2>2. QED
    BY <2>1, RunGoesOn
<1>7. ASSUME NEW s \in Syncs, Release(s) \/ Crash(s)
      PROVE  [Leased!Next]_(Leased!vars)
  <2>1. Running(s)
    BY <1>7 DEF Release, Crash, Running
  <2>2. QED
    BY <1>7, <2>1, RunEnds
<1>8. QED
  BY <1>2, <1>3, <1>4, <1>5, <1>6, <1>7 DEF SyncNext, Proceed

(* The sync's lock is a LeasedLock, for any number of tasks and operators:  *)
(* taken when it is free, given back by its owner or by its TTL, and never  *)
(* touched by a run that has lost it.                                       *)
THEOREM ImplementsLease == SyncSpec => LeaseSpec
<1>1. SyncInit => Leased!Init
  BY DEF SyncInit, Leased!Init, Running, Syncs
<1>2. QED
  BY <1>1, TypeCorrect, LeaseStep, PTL DEF SyncSpec, LeaseSpec, Leased!Spec

----------------------------------------------------------------------------
(* Transactions that are open together know it ... *)
OpenTogether ==
    \A s, t \in Syncs : s # t /\ pc[s] = "inserting" /\ pc[t] = "inserting" => s \in contended

(* ... and one that has been alone since its DELETE has deleted the whole   *)
(* table, so that its INSERTs are all that is left.                         *)
AloneDeletesAll ==
    \A s \in Syncs : pc[s] = "inserting" /\ s \notin contended => doomed[s] = lexical

TableInv == OpenTogether /\ AloneDeletesAll /\ TableIsTheLastScan

LEMMA TableStep == SyncTypeOK /\ TableInv /\ [SyncNext]_syncVars => TableInv'
<1> SUFFICES ASSUME SyncTypeOK, TableInv, [SyncNext]_syncVars PROVE TableInv'
  OBVIOUS
<1> USE SyncAssumption DEF Syncs
<1>1. CASE AzureChange
  BY <1>1 DEF AzureChange, TableInv, OpenTogether, AloneDeletesAll, TableIsTheLastScan, SyncTypeOK
<1>2. CASE LockExpires
  BY <1>2 DEF LockExpires, TableInv, OpenTogether, AloneDeletesAll, TableIsTheLastScan, SyncTypeOK
<1>3. ASSUME NEW s \in Syncs, Start(s) PROVE TableInv'
  BY <1>3 DEF Start, TableInv, OpenTogether, AloneDeletesAll, TableIsTheLastScan, SyncTypeOK
<1>4. ASSUME NEW s \in Syncs, StartByHand(s) PROVE TableInv'
  BY <1>4 DEF StartByHand, TableInv, OpenTogether, AloneDeletesAll, TableIsTheLastScan, SyncTypeOK
<1>5. ASSUME NEW s \in Syncs, List(s) PROVE TableInv'
  BY <1>5 DEF List, TableInv, OpenTogether, AloneDeletesAll, TableIsTheLastScan, SyncTypeOK
<1>6. ASSUME NEW s \in Syncs, Read(s) PROVE TableInv'
  BY <1>6 DEF Read, TableInv, OpenTogether, AloneDeletesAll, TableIsTheLastScan, SyncTypeOK
<1>7. ASSUME NEW s \in Syncs, Delete(s) PROVE TableInv'
  <2>1. OpenTogether'
    BY <1>7 DEF Delete, OpenBeside, TableInv, OpenTogether, SyncTypeOK
  <2>2. AloneDeletesAll'
    BY <1>7 DEF Delete, OpenBeside, TableInv, AloneDeletesAll, SyncTypeOK
  <2>3. TableIsTheLastScan'
    BY <1>7 DEF Delete, TableInv, TableIsTheLastScan
  <2>4. QED
    BY <2>1, <2>2, <2>3 DEF TableInv
<1>8. ASSUME NEW s \in Syncs, Commit(s) PROVE TableInv'
  <2>1. OpenTogether'
    BY <1>8 DEF Commit, TableInv, OpenTogether, SyncTypeOK
  <2>2. AloneDeletesAll'
    <3> SUFFICES ASSUME NEW t \in Syncs, pc'[t] = "inserting", t \notin contended'
                 PROVE  FALSE
      BY DEF AloneDeletesAll
    <3>1. t # s /\ pc[t] = "inserting" /\ pc[s] = "inserting"
      BY <1>8 DEF Commit, SyncTypeOK
    <3>2. t \in contended
      BY <3>1 DEF TableInv, OpenTogether
    <3>3. QED
      BY <1>8, <3>1, <3>2 DEF Commit
  <2>3. TableIsTheLastScan'
    <3> SUFFICES ASSUME last'.alone PROVE lexical' = {last'.by} \X last'.docs
      BY DEF TableIsTheLastScan
    <3>1. s \notin contended /\ last'.by = s /\ last'.docs = scan[s]
      BY <1>8 DEF Commit
    <3>2. doomed[s] = lexical
      BY <1>8, <3>1 DEF Commit, TableInv, AloneDeletesAll
    <3>3. lexical' = {s} \X scan[s]
      BY <1>8, <3>2 DEF Commit
    <3>4. QED
      BY <3>1, <3>3
  <2>4. QED
    BY <2>1, <2>2, <2>3 DEF TableInv
<1>9. ASSUME NEW s \in Syncs, Upload(s) PROVE TableInv'
  BY <1>9 DEF Upload, TableInv, OpenTogether, AloneDeletesAll, TableIsTheLastScan, SyncTypeOK
<1>10. ASSUME NEW s \in Syncs, UploadFails(s) PROVE TableInv'
  BY <1>10 DEF UploadFails, TableInv, OpenTogether, AloneDeletesAll, TableIsTheLastScan, SyncTypeOK
<1>11. ASSUME NEW s \in Syncs, Release(s) PROVE TableInv'
  BY <1>11 DEF Release, TableInv, OpenTogether, AloneDeletesAll, TableIsTheLastScan, SyncTypeOK
<1>12. ASSUME NEW s \in Syncs, Fails(s) PROVE TableInv'
  BY <1>12 DEF Fails, TableInv, OpenTogether, AloneDeletesAll, TableIsTheLastScan, SyncTypeOK
<1>13. ASSUME NEW s \in Syncs, Crash(s) PROVE TableInv'
  BY <1>13 DEF Crash, TableInv, OpenTogether, AloneDeletesAll, TableIsTheLastScan, SyncTypeOK
<1>14. CASE UNCHANGED syncVars
  BY <1>14 DEF syncVars, TableInv, OpenTogether, AloneDeletesAll, TableIsTheLastScan, SyncTypeOK
<1>15. QED
  BY <1>1, <1>2, <1>3, <1>4, <1>5, <1>6, <1>7, <1>8, <1>9, <1>10, <1>11, <1>12, <1>13, <1>14 DEF SyncNext, Proceed

(* DocumentChunkRepository.replace_all, for any number of overlapping runs: *)
(* the table is exactly the last committed scan unless another transaction  *)
(* was open beside the one that committed it; no failure, crash or Pinecone *)
(* outage leaves a part of a scan in it.                                    *)
THEOREM TableHolds == SyncSpec => []TableIsTheLastScan
<1>1. SyncInit => TableInv
  <2> SUFFICES ASSUME SyncInit PROVE TableInv
    OBVIOUS
  <2>1. OpenTogether /\ AloneDeletesAll
    BY DEF SyncInit, OpenTogether, AloneDeletesAll, Syncs
  <2>2. TableIsTheLastScan
    BY DEF SyncInit, TableIsTheLastScan
  <2>3. QED
    BY <2>1, <2>2 DEF TableInv
<1>2. TableInv => TableIsTheLastScan
  BY DEF TableInv
<1>3. QED
  BY <1>1, <1>2, TypeCorrect, TableStep, PTL DEF SyncSpec

----------------------------------------------------------------------------
(* Every set of numbers that is not empty has a least element. *)
LEMMA LeastNat ==
    ASSUME NEW T \in SUBSET Nat, T # {}
    PROVE  \E x \in T : \A y \in T : x <= y
<1> DEFINE R == OpToRel(<, Nat)
<1>1. \A x, y \in Nat : x < y => <<x, y>> \in R
  BY DEF OpToRel
<1>2. IsWellFoundedOn(R, Nat)
  BY NatLessThanWellFounded
<1> HIDE DEF R
<1>3. PICK x \in T : \A y \in T : ~ (<<y, x>> \in R)
  BY <1>2, WFMin
<1>4. ASSUME NEW y \in T PROVE x <= y
  <2>1. x \in Nat /\ y \in Nat /\ ~ (y < x)
    BY <1>1, <1>3
  <2>2. QED
    BY <2>1
<1>5. QED
  BY <1>4

(* What holds of 0, and of k + 1 whenever of k, holds of 0..n. *)
LEMMA Induction ==
    ASSUME NEW n \in Nat, NEW T, 0 \in T, \A k \in 0..n : k \in T /\ k # n => k + 1 \in T
    PROVE  \A k \in 0..n : k \in T
<1> SUFFICES ASSUME NEW k \in 0..n, k \notin T PROVE FALSE
  OBVIOUS
<1> DEFINE Bad == {i \in 0..n : i \notin T}
<1>0. Bad \in SUBSET Nat /\ Bad # {}
  OBVIOUS
<1>1. PICK x \in Bad : \A y \in Bad : x <= y
  BY <1>0, LeastNat
<1>2. x # 0 /\ x \in 0..n
  BY <1>1
<1>3. x - 1 \in 0..n /\ x - 1 # n /\ x - 1 + 1 = x
  BY <1>2
<1>4. x - 1 \in T
  BY <1>1, <1>3
<1>5. QED
  BY <1>1, <1>3, <1>4

(* The library's Max of a set of positions is one of them, and the last. *)
LEMMA MaxInSet ==
    ASSUME NEW n \in Nat, NEW s \in SUBSET (1..n), s # {}
    PROVE  /\ Max(s) \in s
           /\ \A y \in s : Max(s) >= y
<1> DEFINE T == {n - x : x \in s}
<1>0. \A x \in s : x \in 1..n /\ n - x \in Nat
  OBVIOUS
<1>1. PICK t \in T : \A y \in T : t <= y
  <2>1. T \in SUBSET Nat /\ T # {}
    <3>1. PICK x \in s : TRUE
      OBVIOUS
    <3>2. n - x \in T
      BY <3>1
    <3>3. \A y \in T : y \in Nat
      BY <1>0
    <3>4. QED
      BY <3>2, <3>3
  <2>2. QED
    BY <2>1, LeastNat
<1>2. PICK x \in s : t = n - x
  BY <1>1
<1>3. \A y \in s : x >= y
  <2> TAKE y \in s
  <2>1. n - x <= n - y
    BY <1>1, <1>2
  <2>2. QED
    BY <2>1
<1>4. QED
  BY <1>3 DEF Max

(* The last position of a prefix. *)
LEMMA MaxOfPrefix ==
    ASSUME NEW n \in Nat \ {0}
    PROVE  Max(1..n) = n
<1>1. 1..n \in SUBSET (1..n) /\ 1..n # {} /\ n \in 1..n
  OBVIOUS
<1>2. Max(1..n) \in 1..n /\ Max(1..n) >= n
  BY <1>1, MaxInSet
<1>3. QED
  BY <1>2

(* A prefix without its last position is the prefix before it. *)
LEMMA PrefixStep ==
    ASSUME NEW n \in Nat, NEW k \in 1..n
    PROVE  /\ 1..k \in SUBSET (1..n) /\ 1..k # {}
           /\ Max(1..k) = k
           /\ (1..k) \ {k} = 1..(k-1)
<1>1. k \in Nat \ {0}
  OBVIOUS
<1>2. QED
  BY <1>1, MaxOfPrefix

(* The numbers up to m are m. *)
LEMMA CountTo == \A m \in Nat : IsFiniteSet(1..m) /\ Cardinality(1..m) = m
<1> TAKE m \in Nat
<1>1. QED
  BY FS_Interval

(* The entries of a list are finitely many. *)
LEMMA EntriesFinite ==
    ASSUME NEW S, NEW list \in Seq(S)
    PROVE  IsFiniteSet(ToSet(list)) /\ ToSet(list) \in SUBSET S
<1>1. Len(list) \in Nat /\ DOMAIN list = 1..Len(list) /\ \A i \in 1..Len(list) : list[i] \in S
  OBVIOUS
<1>2. list \in [1..Len(list) -> ToSet(list)]
  BY <1>1 DEF ToSet
<1>3. list \in Surjection(1..Len(list), ToSet(list))
  BY <1>1, <1>2 DEF Surjection, ToSet
<1>4. IsFiniteSet(1..Len(list))
  BY <1>1, FS_Interval
<1>5. QED
  BY <1>1, <1>3, <1>4, FS_Surjection DEF ToSet

----------------------------------------------------------------------------
(* g folds F over the finite subsets of S, taking pick[s] out of s last. *)
Folds(g, S, V, base, pick, F) ==
    /\ g \in [SUBSET S -> V]
    /\ g[{}] = base
    /\ \A s \in SUBSET S : s # {} => g[s] = F[pick[s]][g[s \ {pick[s]}]]

(* Such a fold exists, by the size of the subsets. *)
LEMMA FoldExists ==
    ASSUME NEW S, IsFiniteSet(S), NEW V, NEW base \in V,
           NEW pick, \A s \in SUBSET S : s # {} => pick[s] \in s,
           NEW F, \A x \in S, v \in V : F[x][v] \in V
    PROVE  \E g : Folds(g, S, V, base, pick, F)
<1> DEFINE Upto(k) == {s \in SUBSET S : Cardinality(s) <= k}
           Good(g, k) == /\ g \in [Upto(k) -> V]
                         /\ g[{}] = base
                         /\ \A s \in Upto(k) : s # {} => g[s] = F[pick[s]][g[s \ {pick[s]}]]
           T == {k \in Nat : \E g : Good(g, k)}
           n == Cardinality(S)
<1>1. /\ n \in Nat
      /\ \A s \in SUBSET S : IsFiniteSet(s) /\ Cardinality(s) \in Nat /\ Cardinality(s) <= n
  BY FS_CardinalityType, FS_Subset
<1>2. 0 \in T
  <2>1. Upto(0) = {{}}
    BY <1>1, FS_EmptySet
  <2>2. Good([t \in Upto(0) |-> base], 0)
    BY <2>1
  <2>3. QED
    BY <2>2
<1>3. ASSUME NEW k \in Nat, k \in T PROVE k + 1 \in T
  <2>1. PICK g : Good(g, k)
    BY <1>3
  <2> DEFINE h == [s \in Upto(k+1) |-> IF s = {} THEN base ELSE F[pick[s]][g[s \ {pick[s]}]]]
  <2>2. ASSUME NEW s \in Upto(k+1), s # {}
        PROVE  pick[s] \in S /\ s \ {pick[s]} \in Upto(k)
    <3>1. pick[s] \in s
      BY <2>2
    <3>2. Cardinality(s \ {pick[s]}) = Cardinality(s) - 1
      BY <1>1, <3>1, FS_RemoveElement
    <3>3. Cardinality(s) \in Nat /\ Cardinality(s) <= k + 1
      BY <1>1
    <3>4. QED
      BY <3>1, <3>2, <3>3
  <2>3. Upto(k) \subseteq Upto(k+1) /\ {} \in Upto(k+1)
    BY <1>1, FS_EmptySet
  <2>4. \A s \in Upto(k+1) : s # {} => F[pick[s]][g[s \ {pick[s]}]] \in V
    BY <2>1, <2>2
  <2>5. h \in [Upto(k+1) -> V]
    BY <2>4
  <2>6. ASSUME NEW s \in Upto(k) PROVE h[s] = g[s]
    BY <2>1, <2>3
  <2>7. ASSUME NEW s \in Upto(k+1), s # {} PROVE h[s] = F[pick[s]][h[s \ {pick[s]}]]
    <3> HIDE DEF Upto
    <3>1. h[s] = F[pick[s]][g[s \ {pick[s]}]]
      BY <2>7
    <3>2. h[s \ {pick[s]}] = g[s \ {pick[s]}]
      BY <2>2, <2>6, <2>7
    <3>3. QED
      BY <3>1, <3>2
  <2>8. Good(h, k + 1)
    <3>1. h[{}] = base
      BY <2>3
    <3> HIDE DEF Upto, h
    <3>2. QED
      BY <2>5, <2>7, <3>1
  <2>9. QED
    <3> HIDE DEF Good
    <3>1. QED
      BY <2>8
<1> HIDE DEF T
<1>4. n \in T
  BY <1>1, <1>2, <1>3, Induction
<1> USE DEF T
<1>5. PICK g : Good(g, n)
  BY <1>4
<1>6. Upto(n) = SUBSET S
  BY <1>1
<1>7. Folds(g, S, V, base, pick, F)
  BY <1>5, <1>6 DEF Folds
<1>8. QED
  BY <1>7

(* g folds F over the positions of a list from left to right. *)
LeftFolds(g, n, V, base, F) ==
    /\ g \in [SUBSET (1..n) -> V]
    /\ g[{}] = base
    /\ \A s \in SUBSET (1..n) : s # {} =>
         /\ Max(s) \in 1..n /\ s \ {Max(s)} \in SUBSET (1..n)
         /\ g[s] = F[Max(s)][g[s \ {Max(s)}]]

(* So the functions by which FoldLeft and FoldLeftDomain define themselves  *)
(* exist, and CHOOSE picks one.                                             *)
LEMMA LeftFoldExists ==
    ASSUME NEW n \in Nat, NEW V, NEW base \in V,
           NEW F, \A i \in 1..n, v \in V : F[i][v] \in V
    PROVE  \E g : LeftFolds(g, n, V, base, F)
<1> DEFINE pick == [s \in SUBSET (1..n) |-> Max(s)]
<1>1. \A s \in SUBSET (1..n) : s # {} => pick[s] = Max(s) /\ pick[s] \in s
  BY MaxInSet
<1>2. IsFiniteSet(1..n)
  BY FS_Interval
<1> HIDE DEF pick
<1>3. PICK g : Folds(g, 1..n, V, base, pick, F)
  BY <1>1, <1>2, FoldExists
<1>4. LeftFolds(g, n, V, base, F)
  BY <1>1, <1>3 DEF Folds, LeftFolds
<1>5. QED
  BY <1>4

----------------------------------------------------------------------------
(* FlattenSeq puts a list of two lists together ... *)
LEMMA FlattenTwo ==
    ASSUME NEW S, NEW a \in Seq(S), NEW b \in Seq(S)
    PROVE  FlattenSeq(<<a, b>>) = a \o b
<1> DEFINE seqs == <<a, b>>
           Body(f) == [i \in 1..Len(seqs) |-> IF i = 1 THEN seqs[i] ELSE f[i-1] \o seqs[i]]
           flatten == CHOOSE f : f = Body(f)
<1>1. Len(seqs) = 2 /\ seqs[1] = a /\ seqs[2] = b
  OBVIOUS
<1> HIDE DEF seqs
<1>2. FlattenSeq(seqs) = flatten[2]
  BY <1>1 DEF FlattenSeq
<1>3. \E f : f = Body(f)
  <2> DEFINE f == [i \in 1..2 |-> IF i = 1 THEN a ELSE a \o b]
  <2>1. f = Body(f)
    BY <1>1
  <2>2. QED
    BY <2>1
<1>4. flatten = Body(flatten)
  BY <1>3
<1> HIDE DEF flatten
<1>5. /\ 1 \in 1..Len(seqs) /\ 2 \in 1..Len(seqs) /\ 2 - 1 = 1
      /\ flatten = [i \in 1..Len(seqs) |-> IF i = 1 THEN seqs[i] ELSE flatten[i-1] \o seqs[i]]
  BY <1>1, <1>4
<1>6. flatten[1] = a /\ flatten[2] = flatten[1] \o b
  <2>1. \A i \in 1..Len(seqs) :
           flatten[i] = IF i = 1 THEN seqs[i] ELSE flatten[i-1] \o seqs[i]
    BY <1>5, Zenon
  <2>2. /\ flatten[1] = seqs[1]
        /\ flatten[2] = IF 2 = 1 THEN seqs[2] ELSE flatten[2-1] \o seqs[2]
    BY <1>5, <2>1
  <2>3. QED
    BY <1>1, <1>5, <2>2
<1>7. QED
  BY <1>2, <1>6 DEF seqs

(* ... and makes one list out of any number of them. *)
LEMMA FlattenType ==
    ASSUME NEW S, NEW seqs, NEW n \in Nat, seqs \in [1..n -> Seq(S)]
    PROVE  FlattenSeq(seqs) \in Seq(S)
<1>0. Len(seqs) = n /\ \A i \in 1..n : seqs[i] \in Seq(S)
  OBVIOUS
<1> DEFINE Body(f) == [i \in 1..Len(seqs) |-> IF i = 1 THEN seqs[i] ELSE f[i-1] \o seqs[i]]
           flatten == CHOOSE f : f = Body(f)
<1>1. CASE n = 0
  <2>1. FlattenSeq(seqs) = seqs
    BY <1>0, <1>1 DEF FlattenSeq
  <2>2. \A i \in 1..n : seqs[i] \in S
    BY <1>1
  <2>3. seqs \in [1..n -> S]
    BY <2>2
  <2>4. QED
    BY <2>1, <2>3
<1>2. CASE n # 0
  <2>1. FlattenSeq(seqs) = flatten[n]
    BY <1>0, <1>2 DEF FlattenSeq
  <2> DEFINE T == {k \in 0..n : \E g \in [1..k -> Seq(S)] :
                      \A i \in 1..k : g[i] = IF i = 1 THEN seqs[i] ELSE g[i-1] \o seqs[i]}
  <2>2. 0 \in T
    <3>1. [i \in 1..0 |-> <<>>] \in [1..0 -> Seq(S)]
      OBVIOUS
    <3>2. PICK g \in [1..0 -> Seq(S)] : TRUE
      BY <3>1
    <3>3. \A i \in 1..0 : g[i] = IF i = 1 THEN seqs[i] ELSE g[i-1] \o seqs[i]
      OBVIOUS
    <3>4. 0 \in 0..n
      OBVIOUS
    <3>5. QED
      BY <3>3, <3>4
  <2>3. ASSUME NEW k \in 0..n, k \in T, k # n PROVE k + 1 \in T
    <3>1. PICK g \in [1..k -> Seq(S)] :
             \A i \in 1..k : g[i] = IF i = 1 THEN seqs[i] ELSE g[i-1] \o seqs[i]
      BY <2>3
    <3> DEFINE h == [i \in 1..(k+1) |-> IF i = k + 1 THEN IF i = 1 THEN seqs[i] ELSE g[i-1] \o seqs[i]
                                      ELSE g[i]]
    <3>2. k + 1 \in 1..n /\ k + 1 \in 0..n
      BY <2>3
    <3>3. ASSUME NEW i \in 1..(k+1)
          PROVE  /\ h[i] \in Seq(S)
                 /\ h[i] = IF i = 1 THEN seqs[i] ELSE h[i-1] \o seqs[i]
      <4>1. CASE i = k + 1
        <5>1. CASE i = 1
          BY <1>0, <3>2, <4>1, <5>1
        <5>2. CASE i # 1
          <6>1. i - 1 \in 1..k /\ i - 1 \in 1..(k+1) /\ i - 1 # k + 1
            BY <4>1, <5>2
          <6>2. h[i-1] = g[i-1] /\ g[i-1] \in Seq(S)
            BY <6>1
          <6>3. h[i] = g[i-1] \o seqs[i] /\ seqs[i] \in Seq(S)
            BY <1>0, <3>2, <4>1, <5>2
          <6>4. g[i-1] \o seqs[i] \in Seq(S)
            BY <6>2, <6>3
          <6>5. QED
            BY <5>2, <6>2, <6>3, <6>4
        <5>3. QED
          BY <5>1, <5>2
      <4>2. CASE i # k + 1
        <5>1. i \in 1..k /\ h[i] = g[i]
          BY <4>2
        <5>2. i # 1 => h[i-1] = g[i-1]
          BY <4>2, <5>1
        <5> HIDE DEF h
        <5>3. QED
          BY <3>1, <5>1, <5>2
      <4>3. QED
        BY <4>1, <4>2
    <3>4. h \in [1..(k+1) -> Seq(S)]
      <4> DEFINE e(i) == IF i = k + 1 THEN IF i = 1 THEN seqs[i] ELSE g[i-1] \o seqs[i] ELSE g[i]
      <4>1. \A i \in 1..(k+1) : h[i] = e(i)
        OBVIOUS
      <4>2. \A i \in 1..(k+1) : e(i) \in Seq(S)
        BY <3>3, <4>1
      <4> HIDE DEF e
      <4>3. h = [i \in 1..(k+1) |-> e(i)]
        BY DEF e
      <4> HIDE DEF h
      <4>4. QED
        BY <4>2, <4>3
    <3> HIDE DEF h
    <3>5. QED
      BY <3>2, <3>3, <3>4
  <2>4. \A k \in 0..n : k \in T
    <3> HIDE DEF T
    <3>1. \A k \in 0..n : k \in T /\ k # n => k + 1 \in T
      BY <2>3
    <3>2. QED
      BY <2>2, <3>1, Induction
  <2>5. n \in T
    <3> HIDE DEF T
    <3>1. n \in 0..n
      OBVIOUS
    <3>2. QED
      BY <2>4, <3>1
  <2>6. PICK g \in [1..n -> Seq(S)] :
           \A i \in 1..n : g[i] = IF i = 1 THEN seqs[i] ELSE g[i-1] \o seqs[i]
    BY <2>5
  <2>7. \E f : f = Body(f)
    <3>1. g = [i \in 1..n |-> g[i]]
      OBVIOUS
    <3>2. g = Body(g)
      BY <1>0, <2>6, <3>1
    <3>3. QED
      BY <3>2
  <2>8. flatten = Body(flatten)
    BY <2>7
  <2> DEFINE U == {k \in 0..n : k = 0 \/ flatten[k] \in Seq(S)}
  <2>9. 0 \in U
    OBVIOUS
  <2> HIDE DEF flatten
  <2>10. ASSUME NEW k \in 0..n, k \in U, k # n PROVE k + 1 \in U
    <3>1. k + 1 \in 1..n /\ k + 1 \in 0..n /\ (k + 1) - 1 = k /\ seqs[k+1] \in Seq(S)
      BY <1>0, <2>10
    <3>2. flatten[k+1] = IF k + 1 = 1 THEN seqs[k+1] ELSE flatten[(k+1)-1] \o seqs[k+1]
      BY <1>0, <2>8, <3>1
    <3>3. ASSUME k = 0 PROVE flatten[k+1] \in Seq(S)
      <4>1. flatten[k+1] = seqs[k+1]
        BY <3>2, <3>3
      <4>2. QED
        BY <3>1, <4>1
    <3>4. ASSUME k # 0 PROVE flatten[k+1] \in Seq(S)
      <4>1. flatten[k] \in Seq(S) /\ k + 1 # 1
        BY <2>10, <3>4
      <4>2. flatten[k+1] = flatten[k] \o seqs[k+1]
        BY <3>1, <3>2, <4>1
      <4>3. flatten[k] \o seqs[k+1] \in Seq(S)
        BY <3>1, <4>1
      <4>4. QED
        BY <4>2, <4>3
    <3>5. flatten[k+1] \in Seq(S)
      BY <3>3, <3>4
    <3>6. QED
      BY <3>1, <3>5
  <2>11. \A k \in 0..n : k \in U
    <3> HIDE DEF U
    <3>1. \A k \in 0..n : k \in U /\ k # n => k + 1 \in U
      BY <2>10
    <3>2. QED
      BY <2>9, <3>1, Induction
  <2>12. flatten[n] \in Seq(S)
    BY <1>2, <2>11
  <2>13. QED
    BY <2>1, <2>12
<1>3. QED
  BY <1>1, <1>2

(* CutTo keeps the first n entries, or all of a shorter list. *)
LEMMA CutFacts ==
    ASSUME NEW S, NEW list \in Seq(S), NEW n \in Nat
    PROVE  /\ CutTo(n, list) \in Seq(S)
           /\ Len(CutTo(n, list)) = IF Len(list) < n THEN Len(list) ELSE n
           /\ \A i \in 1..Len(CutTo(n, list)) : CutTo(n, list)[i] = list[i]
<1> DEFINE m == IF Len(list) < n THEN Len(list) ELSE n
<1>1. m \in Nat /\ m <= Len(list) /\ Len(list) \in Nat
  OBVIOUS
<1>2. CutTo(n, list) = SubSeq(list, 1, m)
  BY DEF CutTo
<1> HIDE DEF m
<1>3. /\ SubSeq(list, 1, m) \in Seq(S)
      /\ Len(SubSeq(list, 1, m)) = m
      /\ \A i \in 1..m : SubSeq(list, 1, m)[i] = list[i]
  BY <1>1
<1>4. QED
  BY <1>2, <1>3 DEF m

(* FirstSeen is a position of d, or 0 where there is none. *)
LEMMA FirstSeenFacts ==
    ASSUME NEW list \in Seq(Documents), NEW d
    PROVE  /\ ~Contains(list, d) => FirstSeen(list, d) = 0
           /\ Contains(list, d) =>
                /\ FirstSeen(list, d) \in 1..Len(list)
                /\ list[FirstSeen(list, d)] = d
<1> DEFINE I == {i \in 1..Len(list) : list[i] = d}
<1>1. FirstSeen(list, d) = IF I # {} THEN Min(I) ELSE 0
  BY DEF FirstSeen, SelectInSeq
<1>2. Contains(list, d) <=> I # {}
  BY DEF Contains
<1>3. ASSUME I # {} PROVE Min(I) \in I
  <2>1. I \in SUBSET Nat
    OBVIOUS
  <2>2. \E x \in I : \A y \in I : x <= y
    <3> HIDE DEF I
    <3>1. QED
      BY <1>3, <2>1, LeastNat
  <2>3. QED
    BY <2>2 DEF Min
<1>4. QED
  BY <1>1, <1>2, <1>3

(* Two documents of a list are first seen at different places. *)
LEMMA FirstSeenTellsApart ==
    ASSUME NEW list \in Seq(Documents), NEW d \in ToSet(list), NEW e \in ToSet(list), d # e
    PROVE  /\ FirstSeen(list, d) \in Nat /\ FirstSeen(list, e) \in Nat
           /\ FirstSeen(list, d) # FirstSeen(list, e)
<1>1. Contains(list, d) /\ Contains(list, e)
  <2>1. DOMAIN list = 1..Len(list)
    OBVIOUS
  <2>2. QED
    BY <2>1 DEF ToSet, Contains
<1>2. /\ FirstSeen(list, d) \in 1..Len(list) /\ list[FirstSeen(list, d)] = d
      /\ FirstSeen(list, e) \in 1..Len(list) /\ list[FirstSeen(list, e)] = e
  BY <1>1, FirstSeenFacts
<1>3. QED
  BY <1>2

----------------------------------------------------------------------------
(* A finite set that is strictly and totally ordered can be listed so. *)
LEMMA SortedListing ==
    ASSUME NEW D, IsFiniteSet(D), NEW before,
           \A d \in D : <<d, d>> \notin before,
           \A d, e, f \in D : <<d, e>> \in before /\ <<e, f>> \in before => <<d, f>> \in before,
           \A d, e \in D : d # e => <<d, e>> \in before \/ <<e, d>> \in before
    PROVE  \E r \in SetToSeqs(D) :
             \A i, j \in DOMAIN r : i < j => <<r[i], r[j]>> \in before
<1> DEFINE n == Cardinality(D)
           Below(d) == {e \in D : <<e, d>> \in before}
           at == [d \in D |-> 1 + Cardinality(Below(d))]
<1>1. n \in Nat /\ IsFiniteSet(1..n) /\ Cardinality(1..n) = n
  <2>1. n \in Nat
    BY FS_CardinalityType
  <2>2. QED
    BY <2>1, FS_Interval
<1>2. ASSUME NEW d \in D
      PROVE  /\ IsFiniteSet(Below(d)) /\ Cardinality(Below(d)) \in Nat
             /\ Cardinality(Below(d)) < n
  <2>1. Below(d) \in SUBSET D /\ Below(d) # D
    OBVIOUS
  <2> HIDE DEF Below, n
  <2>2. IsFiniteSet(Below(d))
    BY <2>1, FS_Subset
  <2>3. Cardinality(Below(d)) <= n /\ Cardinality(Below(d)) # n
    BY <2>1, FS_Subset DEF n
  <2>4. Cardinality(Below(d)) \in Nat
    BY <2>2, FS_CardinalityType
  <2>5. QED
    BY <1>1, <2>2, <2>3, <2>4
<1>3. ASSUME NEW d \in D, NEW e \in D, <<d, e>> \in before
      PROVE  at[d] < at[e]
  <2>1. Below(d) \in SUBSET Below(e)
    BY <1>3
  <2>2. Below(d) # Below(e)
    BY <1>3
  <2> HIDE DEF Below
  <2>3. Cardinality(Below(d)) <= Cardinality(Below(e)) /\ Cardinality(Below(d)) # Cardinality(Below(e))
    BY <1>2, <2>1, <2>2, FS_Subset
  <2>4. QED
    BY <1>2, <2>3
<1>4. ASSUME NEW d \in D PROVE at[d] \in 1..n
  <2> HIDE DEF Below
  <2>1. QED
    BY <1>1, <1>2
<1>5. at \in [D -> 1..n]
  BY <1>4
<1> HIDE DEF at
<1>6. \A d, e \in D : at[d] = at[e] => d = e
  <2> SUFFICES ASSUME NEW d \in D, NEW e \in D, at[d] = at[e], d # e PROVE FALSE
    OBVIOUS
  <2>1. at[d] < at[e] \/ at[e] < at[d]
    BY <1>3
  <2>2. QED
    BY <1>1, <1>5, <2>1
<1>7. at \in Injection(D, 1..n)
  BY <1>5, <1>6 DEF Injection, IsInjective
<1>8. at \in Surjection(D, 1..n)
  BY <1>1, <1>7, FS_Injection
<1>9. \A i \in 1..n : \E d \in D : at[d] = i
  BY <1>8 DEF Surjection
<1> DEFINE r == [i \in 1..n |-> CHOOSE d \in D : at[d] = i]
<1>10. \A i \in 1..n : r[i] \in D /\ at[r[i]] = i
  BY <1>9
<1>11. r \in [1..n -> D] /\ DOMAIN r = 1..n
  BY <1>10
<1> HIDE DEF r
<1>12. \A i, j \in 1..n : i # j => r[i] # r[j]
  BY <1>10
<1>13. r \in SetToSeqs(D)
  BY <1>11, <1>12 DEF SetToSeqs
<1>14. ASSUME NEW i \in 1..n, NEW j \in 1..n, i < j PROVE <<r[i], r[j]>> \in before
  <2>1. r[i] \in D /\ r[j] \in D /\ at[r[i]] = i /\ at[r[j]] = j /\ r[i] # r[j]
    BY <1>10, <1>12, <1>14
  <2>2. ~(<<r[j], r[i]>> \in before)
    <3>1. ~(at[r[j]] < at[r[i]])
      BY <1>1, <1>14, <2>1
    <3>2. QED
      BY <1>3, <2>1, <3>1
  <2>3. QED
    BY <2>1, <2>2
<1>15. QED
  BY <1>11, <1>13, <1>14

(* A listing of a finite set has each of its elements once. *)
LEMMA ListingCovers ==
    ASSUME NEW D, IsFiniteSet(D), NEW r \in SetToSeqs(D)
    PROVE  r \in Seq(D) /\ Len(r) = Cardinality(D) /\ IsInjective(r) /\ ToSet(r) = D
<1> DEFINE n == Cardinality(D)
<1>1. n \in Nat
  BY FS_CardinalityType
<1>2. r \in [1..n -> D] /\ \A i, j \in 1..n : i # j => r[i] # r[j]
  BY DEF SetToSeqs
<1> HIDE DEF n
<1>3. r \in Seq(D) /\ DOMAIN r = 1..n /\ Len(r) = n
  BY <1>1, <1>2
<1>4. IsInjective(r)
  BY <1>2, <1>3 DEF IsInjective
<1>5. r \in Injection(1..n, D)
  BY <1>2, <1>4 DEF Injection
<1>6. IsFiniteSet(1..n) /\ Cardinality(1..n) = n
  BY <1>1, FS_Interval
<1>7. r \in Surjection(1..n, D)
  BY <1>5, <1>6, FS_Injection DEF n
<1>8. \A d \in D : \E i \in 1..n : r[i] = d
  BY <1>7 DEF Surjection
<1>9. ToSet(r) = D
  BY <1>2, <1>3, <1>8 DEF ToSet
<1>10. QED
  BY <1>3, <1>4, <1>9 DEF n

----------------------------------------------------------------------------
(* Every rank earns a score that is a number. *)
LEMMA TermType == \A rank \in Nat \ {0} : Term(rank) \in Nat
<1> SUFFICES ASSUME NEW rank \in Nat \ {0} PROVE Unit \div (RrfK + rank) \in Nat
  BY DEF Term
<1>1. RrfK + rank \in Nat /\ RrfK + rank > 0 /\ Unit \in Nat
  BY SearchAssumption
<1>2. QED
  BY <1>1

(* AddTerms goes through a list from its first entry to its last. *)
LEMMA AddTermsFold ==
    ASSUME NEW scores \in [Documents -> Nat], NEW list \in Seq(Documents)
    PROVE  \E after : /\ AddTerms(scores, list) = after[Len(list)]
                      /\ after[0] = scores
                      /\ \A k \in 0..(Len(list) - 1) :
                           after[k+1] = [after[k] EXCEPT ![list[k+1]] = @ + Term(k+1)]
<1>0. Len(list) \in Nat /\ DOMAIN list = 1..Len(list) /\ \A i \in 1..Len(list) : list[i] \in Documents
  OBVIOUS
<1> DEFINE n == Len(list)
           V == [Documents -> Nat]
           idx == [i \in DOMAIN list |-> i]
           Body(g) == [s \in SUBSET DOMAIN idx |->
                         IF s = {} THEN scores
                         ELSE LET x == Max(s)
                              IN [g[s \ {x}] EXCEPT ![list[idx[x]]] = @ + Term(idx[x])]]
           it == CHOOSE g : g = Body(g)
<1>1. AddTerms(scores, list) = it[DOMAIN idx]
  BY DEF AddTerms, FoldLeftDomain, FoldLeft, MapThenFoldSet
<1>2. \E g : g = Body(g)
  <2> DEFINE F == [i \in 1..n |-> [v \in V |-> [v EXCEPT ![list[i]] = @ + Term(i)]]]
  <2>1. ASSUME NEW i \in 1..n, NEW v \in V
        PROVE  /\ F[i][v] = [v EXCEPT ![list[i]] = @ + Term(i)]
               /\ F[i][v] \in V
    <3>1. Term(i) \in Nat /\ list[i] \in Documents
      BY <1>0, TermType
    <3>2. QED
      BY <3>1
  <2> HIDE DEF F
  <2>2. PICK g : LeftFolds(g, n, V, scores, F)
    <3> HIDE DEF V
    <3>1. QED
      BY <1>0, <2>1, LeftFoldExists DEF V
  <2>3. /\ g \in [SUBSET (1..n) -> V]
        /\ g[{}] = scores
        /\ \A s \in SUBSET (1..n) : s # {} =>
             /\ Max(s) \in 1..n
             /\ s \ {Max(s)} \in SUBSET (1..n)
             /\ g[s] = F[Max(s)][g[s \ {Max(s)}]]
    BY <2>2 DEF LeftFolds
  <2>4. ASSUME NEW s \in SUBSET (1..n) PROVE g[s] = Body(g)[s]
    <3>1. CASE s = {}
      BY <1>0, <2>3, <3>1
    <3>2. CASE s # {}
      <4>1. /\ Max(s) \in 1..n
            /\ g[s \ {Max(s)}] \in V
            /\ g[s] = F[Max(s)][g[s \ {Max(s)}]]
        BY <2>3, <3>2
      <4>2. g[s] = [g[s \ {Max(s)}] EXCEPT ![list[Max(s)]] = @ + Term(Max(s))]
        BY <2>1, <4>1
      <4>3. idx[Max(s)] = Max(s)
        BY <1>0, <4>1
      <4>4. QED
        BY <1>0, <3>2, <4>2, <4>3
    <3>3. QED
      BY <3>1, <3>2
  <2>5. DOMAIN idx = 1..n
    BY <1>0
  <2>6. g = Body(g)
    BY <2>3, <2>4, <2>5
  <2>7. QED
    BY <2>6
<1>3. it = Body(it)
  BY <1>2
<1>4. it[{}] = scores
  BY <1>0, <1>3
<1>5. ASSUME NEW k \in 1..n
      PROVE  it[1..k] = [it[1..(k-1)] EXCEPT ![list[k]] = @ + Term(k)]
  <2>1. /\ 1..k \in SUBSET DOMAIN idx /\ 1..k # {}
        /\ Max(1..k) = k /\ idx[k] = k
        /\ (1..k) \ {k} = 1..(k-1)
    BY <1>0, PrefixStep
  <2>2. Body(it)[1..k] = [it[(1..k) \ {k}] EXCEPT ![list[k]] = @ + Term(k)]
    BY <2>1
  <2>3. QED
    BY <1>3, <2>1, <2>2
<1>6. AddTerms(scores, list) = it[1..n]
  BY <1>0, <1>1
<1> HIDE DEF it
<1> DEFINE after == [k \in 0..n |-> it[1..k]]
<1>7. after[0] = scores /\ AddTerms(scores, list) = after[n]
  BY <1>0, <1>4, <1>6
<1>8. ASSUME NEW k \in 0..(n-1)
      PROVE  after[k+1] = [after[k] EXCEPT ![list[k+1]] = @ + Term(k+1)]
  <2>1. k + 1 \in 1..n /\ k \in 0..n /\ k + 1 \in 0..n /\ (k + 1) - 1 = k
    BY <1>0
  <2>2. it[1..(k+1)] = [it[1..((k+1)-1)] EXCEPT ![list[k+1]] = @ + Term(k+1)]
    BY <1>5, <2>1
  <2>3. QED
    BY <2>1, <2>2
<1> HIDE DEF after
<1>9. QED
  BY <1>7, <1>8

(* AddTerms makes scores of scores. *)
LEMMA AddTermsType ==
    ASSUME NEW scores \in [Documents -> Nat], NEW list \in Seq(Documents)
    PROVE  AddTerms(scores, list) \in [Documents -> Nat]
<1> DEFINE V == [Documents -> Nat]
           n == Len(list)
<1>1. n \in Nat /\ \A i \in 1..n : list[i] \in Documents
  OBVIOUS
<1>2. PICK after : /\ AddTerms(scores, list) = after[n]
                   /\ after[0] = scores
                   /\ \A k \in 0..(n-1) :
                        after[k+1] = [after[k] EXCEPT ![list[k+1]] = @ + Term(k+1)]
  BY AddTermsFold
<1> DEFINE T == {k \in 0..n : after[k] \in V}
<1>3. 0 \in T
  BY <1>1, <1>2
<1>4. ASSUME NEW k \in 0..n, k \in T, k # n PROVE k + 1 \in T
  <2>1. k + 1 \in 1..n /\ k \in 0..(n-1) /\ after[k] \in V
    BY <1>1, <1>4
  <2>2. after[k+1] = [after[k] EXCEPT ![list[k+1]] = @ + Term(k+1)]
    BY <1>2, <2>1
  <2>3. Term(k+1) \in Nat /\ list[k+1] \in Documents
    BY <1>1, <2>1, TermType
  <2>4. after[k+1] \in V
    BY <2>1, <2>2, <2>3
  <2>5. QED
    BY <2>1, <2>4
<1> HIDE DEF T, V, n
<1>5. \A k \in 0..n : k \in T
  <2>1. \A k \in 0..n : k \in T /\ k # n => k + 1 \in T
    BY <1>4
  <2>2. n \in Nat
    BY <1>1
  <2>3. QED
    BY <1>3, <2>1, <2>2, Induction
<1>6. n \in 0..n
  BY <1>1
<1>7. QED
  BY <1>2, <1>5, <1>6 DEF T, V

(* One pass over a list without repeats adds the term of each entry once. *)
LEMMA AddTermsAdds ==
    ASSUME NEW scores \in [Documents -> Nat], NEW list \in Seq(Documents),
           IsInjective(list), NEW d \in Documents
    PROVE  AddTerms(scores, list)[d] =
             scores[d] + IF Contains(list, d) THEN Term(FirstSeen(list, d)) ELSE 0
<1> DEFINE V == [Documents -> Nat]
           n == Len(list)
           at == FirstSeen(list, d)
           there == Contains(list, d)
<1>1. n \in Nat /\ \A i \in 1..n : list[i] \in Documents
  OBVIOUS
<1>2. PICK after : /\ AddTerms(scores, list) = after[n]
                   /\ after[0] = scores
                   /\ \A k \in 0..(n-1) :
                        after[k+1] = [after[k] EXCEPT ![list[k+1]] = @ + Term(k+1)]
  BY AddTermsFold
<1>3. \A k \in 1..n : list[k] = d <=> there /\ k = at
  BY <1>1, FirstSeenFacts DEF IsInjective, Contains
<1>4. there => at \in 1..n
  BY FirstSeenFacts
<1> HIDE DEF at, there
<1> DEFINE T == {k \in 0..n : /\ after[k] \in V
                              /\ after[k][d] = scores[d] + IF there /\ at <= k THEN Term(at) ELSE 0}
<1>5. 0 \in T
  BY <1>1, <1>2, <1>4
<1>6. ASSUME NEW k \in 0..n, k \in T, k # n PROVE k + 1 \in T
  <2>1. k + 1 \in 1..n /\ k \in 0..(n-1) /\ after[k] \in V
    BY <1>1, <1>6
  <2>2. after[k+1] = [after[k] EXCEPT ![list[k+1]] = @ + Term(k+1)]
    BY <1>2, <2>1
  <2>3. Term(k+1) \in Nat /\ list[k+1] \in Documents
    BY <1>1, <2>1, TermType
  <2>4. after[k+1] \in V
    BY <2>1, <2>2, <2>3
  <2>5. CASE list[k+1] = d
    <3>1. there /\ at = k + 1
      BY <1>3, <2>1, <2>5
    <3>2. after[k+1][d] = after[k][d] + Term(at)
      BY <2>1, <2>2, <2>5, <3>1
    <3>3. after[k][d] = scores[d]
      BY <1>6, <2>1, <3>1
    <3>4. QED
      BY <2>1, <2>4, <3>1, <3>2, <3>3
  <2>6. CASE list[k+1] # d
    <3>1. there => at # k + 1
      BY <1>3, <2>1, <2>6
    <3>2. after[k+1][d] = after[k][d]
      BY <2>1, <2>2, <2>3, <2>6
    <3>3. there /\ at <= k + 1 <=> there /\ at <= k
      BY <1>4, <2>1, <3>1
    <3>4. QED
      BY <1>6, <2>1, <2>4, <3>2, <3>3
  <2>7. QED
    BY <2>5, <2>6
<1> HIDE DEF T, V, n
<1>7. \A k \in 0..n : k \in T
  <2>1. \A k \in 0..n : k \in T /\ k # n => k + 1 \in T
    BY <1>6
  <2>2. n \in Nat
    BY <1>1
  <2>3. QED
    BY <1>5, <2>1, <2>2, Induction
<1>8. n \in 0..n /\ (there => at <= n)
  BY <1>1, <1>4
<1>9. QED
  BY <1>2, <1>7, <1>8 DEF T, V, at, there

(* The scores of two lists are those of one pass after the other. *)
LEMMA ScoresOfTwo ==
    ASSUME NEW a \in Seq(Documents), NEW b \in Seq(Documents)
    PROVE  Scores(<<a, b>>) = AddTerms(AddTerms([d \in Documents |-> 0], a), b)
<1> DEFINE zero == [d \in Documents |-> 0]
           V == [Documents -> Nat]
           lists == <<a, b>>
           Body(g) == [s \in SUBSET DOMAIN lists |->
                         IF s = {} THEN zero
                         ELSE LET x == Max(s) IN AddTerms(g[s \ {x}], lists[x])]
           it == CHOOSE g : g = Body(g)
<1>1. DOMAIN lists = 1..2 /\ lists[1] = a /\ lists[2] = b
  OBVIOUS
<1>2. Scores(lists) = it[DOMAIN lists]
  BY DEF Scores, FoldLeft, MapThenFoldSet
<1> HIDE DEF lists
<1>3. zero \in V
  OBVIOUS
<1> HIDE DEF zero
<1>4. \E g : g = Body(g)
  <2> DEFINE F == [i \in 1..2 |-> [v \in V |-> AddTerms(v, lists[i])]]
  <2>1. ASSUME NEW i \in 1..2, NEW v \in V
        PROVE  F[i][v] = AddTerms(v, lists[i]) /\ F[i][v] \in V
    <3>1. lists[i] \in Seq(Documents)
      BY <1>1
    <3>2. AddTerms(v, lists[i]) \in V
      BY <3>1, AddTermsType
    <3>3. QED
      BY <3>2
  <2> HIDE DEF F, V
  <2>2. PICK g : LeftFolds(g, 2, V, zero, F)
    BY <1>3, <2>1, LeftFoldExists
  <2>3. /\ g \in [SUBSET (1..2) -> V]
        /\ g[{}] = zero
        /\ \A s \in SUBSET (1..2) : s # {} =>
             /\ Max(s) \in 1..2
             /\ s \ {Max(s)} \in SUBSET (1..2)
             /\ g[s] = F[Max(s)][g[s \ {Max(s)}]]
    BY <2>2 DEF LeftFolds
  <2>4. ASSUME NEW s \in SUBSET (1..2)
        PROVE g[s] = IF s = {} THEN zero ELSE AddTerms(g[s \ {Max(s)}], lists[Max(s)])
    <3>1. ASSUME s # {} PROVE g[s] = AddTerms(g[s \ {Max(s)}], lists[Max(s)])
      <4>1. /\ Max(s) \in 1..2
            /\ g[s \ {Max(s)}] \in V
            /\ g[s] = F[Max(s)][g[s \ {Max(s)}]]
        BY <2>3, <3>1
      <4>2. QED
        BY <2>1, <4>1
    <3>2. QED
      BY <2>3, <3>1
  <2>5. g = [s \in SUBSET (1..2) |-> g[s]]
    BY <2>3
  <2>6. g = Body(g)
    BY <1>1, <2>4, <2>5
  <2>7. QED
    BY <2>6
<1>5. it = Body(it)
  BY <1>4
<1> HIDE DEF it
<1>6. \A s \in SUBSET (1..2) :
         it[s] = IF s = {} THEN zero ELSE AddTerms(it[s \ {Max(s)}], lists[Max(s)])
  <2>1. it = [s \in SUBSET DOMAIN lists |->
                IF s = {} THEN zero
                ELSE LET x == Max(s) IN AddTerms(it[s \ {x}], lists[x])]
    BY <1>5
  <2> HIDE DEF Body
  <2>2. QED
    BY <1>1, <2>1
<1>7. \A k \in 1..2 : it[1..k] = AddTerms(it[1..(k-1)], lists[k])
  <2> TAKE k \in 1..2
  <2>1. /\ 1..k \in SUBSET (1..2) /\ 1..k # {}
        /\ Max(1..k) = k /\ (1..k) \ {k} = 1..(k-1)
    BY PrefixStep
  <2>2. QED
    BY <1>6, <2>1
<1>8. it[1..0] = zero
  <2>1. 1..0 = {} /\ {} \in SUBSET (1..2)
    OBVIOUS
  <2>2. QED
    BY <1>6, <2>1
<1>9. it[1..1] = AddTerms(zero, a)
  <2>1. 1 \in 1..2 /\ 1 - 1 = 0
    OBVIOUS
  <2>2. it[1..1] = AddTerms(it[1..(1-1)], lists[1])
    BY <1>7, <2>1
  <2>3. QED
    BY <1>1, <1>8, <2>1, <2>2
<1>10. it[1..2] = AddTerms(AddTerms(zero, a), b)
  <2>1. 2 \in 1..2 /\ 2 - 1 = 1
    OBVIOUS
  <2>2. it[1..2] = AddTerms(it[1..(2-1)], lists[2])
    BY <1>7, <2>1
  <2>3. QED
    BY <1>1, <1>9, <2>1, <2>2
<1>11. QED
  BY <1>1, <1>2, <1>10 DEF lists, zero

(* They are numbers. *)
LEMMA ScoresType ==
    ASSUME NEW a \in Seq(Documents), NEW b \in Seq(Documents)
    PROVE  Scores(<<a, b>>) \in [Documents -> Nat]
<1>1. [d \in Documents |-> 0] \in [Documents -> Nat]
  OBVIOUS
<1>2. AddTerms([d \in Documents |-> 0], a) \in [Documents -> Nat]
  BY <1>1, AddTermsType
<1>3. QED
  BY <1>2, AddTermsType, ScoresOfTwo

(* Fused exists and is what a sort by score promises: everything in either *)
(* list, once, best score first.                                            *)
LEMMA FusedIsSorted ==
    ASSUME NEW a \in Seq(Documents), NEW b \in Seq(Documents)
    PROVE  LET r == Fused(<<a, b>>)
           IN  /\ r \in Seq(Documents) /\ IsInjective(r)
               /\ ToSet(r) = ToSet(a) \cup ToSet(b)
               /\ \A i, j \in DOMAIN r : i < j =>
                    Scores(<<a, b>>)[r[i]] >= Scores(<<a, b>>)[r[j]]
<1> DEFINE seen == FlattenSeq(<<a, b>>)
           score == Scores(<<a, b>>)
           D == ToSet(seen)
           Sorted(r) == \A i, j \in DOMAIN r : i < j => Precedes(score, seen, r[i], r[j])
           before == {p \in D \X D : Precedes(score, seen, p[1], p[2])}
           r == Fused(<<a, b>>)
<1>1. seen = a \o b /\ seen \in Seq(Documents)
  <2>1. seen = a \o b
    BY FlattenTwo
  <2>2. a \o b \in Seq(Documents)
    OBVIOUS
  <2>3. QED
    BY <2>1, <2>2
<1>2. D = ToSet(a) \cup ToSet(b)
  <2>1. a \o b \in Seq(Documents) /\ Len(a \o b) = Len(a) + Len(b)
    OBVIOUS
  <2>2. DOMAIN a = 1..Len(a) /\ DOMAIN b = 1..Len(b) /\ DOMAIN (a \o b) = 1..(Len(a) + Len(b))
        /\ Len(a) \in Nat /\ Len(b) \in Nat
    OBVIOUS
  <2>3. \A i \in 1..Len(a) : i \in 1..(Len(a) + Len(b)) /\ (a \o b)[i] = a[i]
    BY <2>2
  <2>4. \A i \in 1..Len(b) : Len(a) + i \in 1..(Len(a) + Len(b)) /\ (a \o b)[Len(a) + i] = b[i]
    BY <2>2
  <2>5. \A i \in 1..(Len(a) + Len(b)) :
           \/ i \in 1..Len(a) /\ (a \o b)[i] = a[i]
           \/ i - Len(a) \in 1..Len(b) /\ (a \o b)[i] = b[i - Len(a)]
    BY <2>2
  <2>6. ToSet(a \o b) \subseteq ToSet(a) \cup ToSet(b)
    BY <2>2, <2>5 DEF ToSet
  <2>7. ToSet(a) \cup ToSet(b) \subseteq ToSet(a \o b)
    BY <2>2, <2>3, <2>4 DEF ToSet
  <2>8. QED
    BY <1>1, <2>6, <2>7
<1>3. IsFiniteSet(D) /\ D \in SUBSET Documents
  BY <1>1, EntriesFinite
<1>4. \A d \in D : score[d] \in Nat
  BY <1>3, ScoresType
<1>5. \A d, e \in D : d # e =>
         FirstSeen(seen, d) \in Nat /\ FirstSeen(seen, e) \in Nat
         /\ FirstSeen(seen, d) # FirstSeen(seen, e)
  BY <1>1, FirstSeenTellsApart
<1>6. \A d \in D : FirstSeen(seen, d) \in Nat
  <2> TAKE d \in D
  <2>1. FirstSeen(seen, d) = 0 \/ FirstSeen(seen, d) \in 1..Len(seen)
    BY <1>1, FirstSeenFacts
  <2>2. Len(seen) \in Nat
    BY <1>1
  <2> HIDE DEF seen
  <2>3. QED
    BY <2>1, <2>2
<1> HIDE DEF seen, score, D
<1>7. \A d, e \in D : <<d, e>> \in before <=> Precedes(score, seen, d, e)
  OBVIOUS
<1> HIDE DEF before
<1>8. \A d \in D : <<d, d>> \notin before
  BY <1>4, <1>6, <1>7 DEF Precedes
<1>9. \A d, e, f \in D : <<d, e>> \in before /\ <<e, f>> \in before => <<d, f>> \in before
  <2> SUFFICES ASSUME NEW d \in D, NEW e \in D, NEW f \in D,
                      Precedes(score, seen, d, e), Precedes(score, seen, e, f)
               PROVE  Precedes(score, seen, d, f)
    BY <1>7
  <2>1. /\ score[d] \in Nat /\ score[e] \in Nat /\ score[f] \in Nat
        /\ FirstSeen(seen, d) \in Nat /\ FirstSeen(seen, e) \in Nat /\ FirstSeen(seen, f) \in Nat
    BY <1>4, <1>6
  <2>2. QED
    BY <2>1 DEF Precedes
<1>10. \A d, e \in D : d # e => <<d, e>> \in before \/ <<e, d>> \in before
  <2> SUFFICES ASSUME NEW d \in D, NEW e \in D, d # e
               PROVE  Precedes(score, seen, d, e) \/ Precedes(score, seen, e, d)
    BY <1>7
  <2>1. /\ score[d] \in Nat /\ score[e] \in Nat
        /\ FirstSeen(seen, d) \in Nat /\ FirstSeen(seen, e) \in Nat
        /\ FirstSeen(seen, d) # FirstSeen(seen, e)
    BY <1>4, <1>5
  <2>2. QED
    BY <2>1 DEF Precedes
<1>11. \E q \in SetToSeqs(D) : Sorted(q)
  <2>1. PICK q \in SetToSeqs(D) : \A i, j \in DOMAIN q : i < j => <<q[i], q[j]>> \in before
    BY <1>3, <1>8, <1>9, <1>10, SortedListing
  <2>2. q \in Seq(D)
    BY <1>3, ListingCovers
  <2>3. \A i \in DOMAIN q : q[i] \in D
    BY <2>2
  <2>4. QED
    BY <1>7, <2>1, <2>3
<1>12. r = CHOOSE q \in SetToSeqs(D) : Sorted(q)
  BY DEF Fused, seen, score, D
<1> HIDE DEF r
<1>13. r \in SetToSeqs(D) /\ Sorted(r)
  <2> HIDE DEF Sorted
  <2>1. QED
    BY <1>11, <1>12
<1>14. r \in Seq(D) /\ IsInjective(r) /\ ToSet(r) = D
  BY <1>3, <1>13, ListingCovers
<1>15. r \in Seq(Documents) /\ \A i \in DOMAIN r : r[i] \in D
  BY <1>3, <1>14
<1>16. ASSUME NEW i \in DOMAIN r, NEW j \in DOMAIN r, i < j
       PROVE  score[r[i]] >= score[r[j]]
  <2>1. Precedes(score, seen, r[i], r[j])
    BY <1>13, <1>16
  <2>2. score[r[i]] \in Nat /\ score[r[j]] \in Nat
    BY <1>4, <1>15
  <2>3. QED
    BY <2>1, <2>2 DEF Precedes
<1>17. QED
  BY <1>2, <1>14, <1>15, <1>16 DEF r, score

----------------------------------------------------------------------------
Statuses == {"waiting", "skipped", "answered", "failed"}

(* Each half of a search answers with a list of documents. *)
HalvesTyped == half \in [Halves -> [status : Statuses, chunks : Seq(Documents)]]

(* The lists that are fused are the answers of the halves. *)
LEMMA FoundFacts ==
    ASSUME HalvesTyped
    PROVE  /\ Found("dense") \in Seq(Documents) /\ Found("lexical") \in Seq(Documents)
           /\ Lists = <<Found("dense"), Found("lexical")>>
  BY DEF HalvesTyped, Found, Lists, Halves

(* Two passes over lists without repeats make the documented sum. *)
LEMMA ScoresAsDocumented ==
    ASSUME HalvesTyped, ~Repeats(Found("dense")), ~Repeats(Found("lexical")),
           NEW d \in Documents
    PROVE  Scores(Lists)[d] = DocumentedScore(d) /\ Scores(Lists)[d] \in Nat
<1> DEFINE a == Found("dense")
           b == Found("lexical")
           zero == [e \in Documents |-> 0]
<1>1. /\ a \in Seq(Documents) /\ b \in Seq(Documents) /\ Lists = <<a, b>>
      /\ IsInjective(a) /\ IsInjective(b)
  BY FoundFacts DEF Repeats
<1>2. zero \in [Documents -> Nat] /\ zero[d] = 0
  OBVIOUS
<1> HIDE DEF zero, a, b
<1>3. AddTerms(zero, a) \in [Documents -> Nat]
  BY <1>1, <1>2, AddTermsType
<1>4. AddTerms(zero, a)[d] = 0 + IF Contains(a, d) THEN Term(FirstSeen(a, d)) ELSE 0
  BY <1>1, <1>2, AddTermsAdds
<1>5. AddTerms(AddTerms(zero, a), b)[d] =
        AddTerms(zero, a)[d] + IF Contains(b, d) THEN Term(FirstSeen(b, d)) ELSE 0
  BY <1>1, <1>3, AddTermsAdds
<1>6. Scores(<<a, b>>) = AddTerms(AddTerms(zero, a), b)
  BY <1>1, ScoresOfTwo DEF zero
<1>7. Scores(<<a, b>>) \in [Documents -> Nat]
  BY <1>1, ScoresType
<1>8. /\ Points("dense", d) = IF Contains(a, d) THEN Term(FirstSeen(a, d)) ELSE 0
      /\ Points("lexical", d) = IF Contains(b, d) THEN Term(FirstSeen(b, d)) ELSE 0
  BY DEF Points, a, b
<1>9. AddTerms(zero, a)[d] = Points("dense", d)
  <2>1. AddTerms(zero, a)[d] = 0 + Points("dense", d)
    BY <1>4, <1>8
  <2>2. Points("dense", d) \in Nat
    <3>1. Contains(a, d) => FirstSeen(a, d) \in Nat \ {0}
      BY <1>1, FirstSeenFacts
    <3>2. QED
      BY <1>8, <3>1, TermType
  <2>3. QED
    BY <2>1, <2>2
<1>10. Scores(<<a, b>>)[d] = Points("dense", d) + Points("lexical", d)
  BY <1>5, <1>6, <1>8, <1>9
<1>11. QED
  BY <1>1, <1>7, <1>10 DEF DocumentedScore

(* Whatever the halves have answered, the fusion is the documented one. *)
LEMMA FusionHolds == ASSUME HalvesTyped PROVE FusionAsDocumented
<1> SUFFICES ASSUME \A h \in Halves : ~Repeats(Found(h))
             PROVE  LET left == (UNION {ToSet(Found(h)) : h \in Halves}) \ ToSet(Shown)
                        rank == [i \in DOMAIN Shown |-> DocumentedScore(Shown[i])]
                    IN  /\ ~Repeats(Shown)
                        /\ \A i, j \in DOMAIN Shown : i < j => rank[i] >= rank[j]
                        /\ left # {} => Len(Shown) = Results
                        /\ \A d \in left, i \in DOMAIN Shown : rank[i] >= DocumentedScore(d)
  BY DEF FusionAsDocumented
<1> DEFINE all == UNION {ToSet(Found(h)) : h \in Halves}
           left == all \ ToSet(Shown)
           rank == [i \in DOMAIN Shown |-> DocumentedScore(Shown[i])]
           r == Fused(Lists)
<1>1. /\ Found("dense") \in Seq(Documents) /\ Found("lexical") \in Seq(Documents)
      /\ Lists = <<Found("dense"), Found("lexical")>>
  BY FoundFacts
<1>2. ~Repeats(Found("dense")) /\ ~Repeats(Found("lexical"))
  BY DEF Halves
<1>3. all = ToSet(Found("dense")) \cup ToSet(Found("lexical"))
  BY DEF Halves
<1>4. /\ r \in Seq(Documents) /\ IsInjective(r) /\ ToSet(r) = all
      /\ \A i, j \in DOMAIN r : i < j => Scores(Lists)[r[i]] >= Scores(Lists)[r[j]]
  BY <1>1, <1>3, FusedIsSorted
<1>5. DOMAIN r = 1..Len(r) /\ Len(r) \in Nat /\ \A i \in 1..Len(r) : r[i] \in Documents
  BY <1>4
<1>6. \A d \in Documents : DocumentedScore(d) = Scores(Lists)[d] /\ DocumentedScore(d) \in Nat
  BY <1>2, ScoresAsDocumented
<1>7. \A i, j \in 1..Len(r) : i < j => DocumentedScore(r[i]) >= DocumentedScore(r[j])
  BY <1>4, <1>5, <1>6
<1>8. /\ Shown \in Seq(Documents)
      /\ Len(Shown) = IF Len(r) < Results THEN Len(r) ELSE Results
      /\ \A i \in 1..Len(Shown) : Shown[i] = r[i]
  BY <1>4, SearchAssumption, CutFacts DEF Shown
<1> HIDE DEF r, all
<1>9. /\ DOMAIN Shown = 1..Len(Shown) /\ Len(Shown) \in Nat
      /\ Results \in Nat /\ Len(Shown) <= Len(r)
      /\ \A i \in 1..Len(Shown) : i \in 1..Len(r)
  <2>1. Results \in Nat
    BY SearchAssumption
  <2>2. DOMAIN Shown = 1..Len(Shown) /\ Len(Shown) \in Nat
    BY <1>8
  <2>3. Len(Shown) <= Len(r)
    BY <1>5, <1>8, <2>1
  <2>4. QED
    BY <1>5, <2>1, <2>2, <2>3
<1>10. ~Repeats(Shown)
  BY <1>4, <1>5, <1>8, <1>9 DEF Repeats, IsInjective
<1>11. \A i, j \in DOMAIN Shown : i < j => rank[i] >= rank[j]
  BY <1>7, <1>8, <1>9
<1>12. ASSUME NEW d \in left PROVE \E k \in 1..Len(r) : r[k] = d /\ k > Len(Shown)
  <2>1. PICK k \in 1..Len(r) : r[k] = d
    BY <1>4, <1>5 DEF ToSet
  <2>2. k \notin 1..Len(Shown)
    BY <1>8, <1>9, <2>1 DEF ToSet
  <2>3. QED
    BY <1>9, <2>1, <2>2
<1>13. left # {} => Len(Shown) = Results
  <2> SUFFICES ASSUME NEW d \in left PROVE Len(Shown) = Results
    OBVIOUS
  <2>1. Len(r) > Len(Shown)
    BY <1>5, <1>9, <1>12
  <2>2. Len(Shown) = IF Len(r) < Results THEN Len(r) ELSE Results
    BY <1>8
  <2>3. Len(r) \in Nat
    BY <1>5
  <2>4. Len(Shown) \in Nat
    BY <1>9
  <2>5. Len(Shown) # Len(r)
    BY <2>1, <2>3, <2>4
  <2>6. QED
    BY <2>2, <2>5
<1>14. ASSUME NEW d \in left, NEW i \in DOMAIN Shown PROVE rank[i] >= DocumentedScore(d)
  <2>1. PICK k \in 1..Len(r) : r[k] = d /\ k > Len(Shown)
    BY <1>12
  <2>2. i \in 1..Len(r) /\ i < k /\ rank[i] = DocumentedScore(r[i])
    BY <1>8, <1>9, <2>1
  <2>3. QED
    BY <1>7, <2>1, <2>2
<1>15. QED
  BY <1>10, <1>11, <1>13, <1>14 DEF all

(* The answer of an index is a list of documents. *)
LEMMA HitsType ==
    ASSUME NEW order \in Seq(Documents), NEW copies \in [Documents -> Nat]
    PROVE  Hits(order, copies) \in Seq(Documents)
<1> DEFINE seqs == [i \in DOMAIN order |-> [j \in 1..copies[order[i]] |-> order[i]]]
<1>1. DOMAIN order = 1..Len(order) /\ Len(order) \in Nat
      /\ \A i \in 1..Len(order) : order[i] \in Documents
  OBVIOUS
<1>2. ASSUME NEW i \in 1..Len(order)
      PROVE  [j \in 1..copies[order[i]] |-> order[i]] \in Seq(Documents)
  <2>1. order[i] \in Documents /\ copies[order[i]] \in Nat
    BY <1>1
  <2>2. QED
    BY <2>1
<1>3. seqs \in [1..Len(order) -> Seq(Documents)]
  BY <1>1, <1>2
<1> HIDE DEF seqs
<1>4. FlattenSeq(seqs) \in Seq(Documents)
  BY <1>1, <1>3, FlattenType
<1>5. Candidates \in Nat
  BY SearchAssumption
<1>6. CutTo(Candidates, FlattenSeq(seqs)) \in Seq(Documents)
  BY <1>4, <1>5, CutFacts
<1>7. QED
  BY <1>6 DEF Hits, seqs

(* Postgres holds finitely many rows of a document. *)
LEMMA RowsOfType == ASSUME SyncTypeOK PROVE RowsOf \in [Documents -> Nat]
<1>1. IsFiniteSet(Rows)
  BY SyncAssumption, FS_Product DEF Rows, Syncs
<1>2. ASSUME NEW d \in Documents PROVE Cardinality({row \in lexical : row[2] = d}) \in Nat
  <2>1. {row \in lexical : row[2] = d} \in SUBSET Rows
    BY DEF SyncTypeOK
  <2>2. IsFiniteSet({row \in lexical : row[2] = d})
    BY <1>1, <2>1, FS_Subset
  <2>3. QED
    BY <2>2, FS_CardinalityType
<1>3. QED
  BY <1>2 DEF RowsOf

(* The orders in which a half may rank the documents are lists of them. *)
LEMMA OrdersAreLists ==
    /\ \A order \in SetToSeqs(Documents) : order \in Seq(Documents)
    /\ \A order \in SetToAllKPermutations(Documents) : order \in Seq(Documents)
<1>1. ASSUME NEW S \in SUBSET Documents, NEW order \in SetToSeqs(S)
      PROVE  order \in Seq(Documents)
  <2>1. IsFiniteSet(S)
    BY SyncAssumption, FS_Subset
  <2>2. order \in Seq(S)
    BY <2>1, ListingCovers
  <2>3. QED
    BY <2>2
<1>2. QED
  BY <1>1 DEF SetToAllKPermutations

(* No step of a search or of a sync makes the halves lose their types. *)
LEMMA HalvesStep == SyncTypeOK /\ HalvesTyped /\ [Next]_vars => HalvesTyped'
<1> SUFFICES ASSUME SyncTypeOK, HalvesTyped, [Next]_vars PROVE HalvesTyped'
  OBVIOUS
<1>0. <<>> \in Seq(Documents)
  OBVIOUS
<1>w. Waiting \in [Halves -> [status : Statuses, chunks : Seq(Documents)]]
  BY <1>0 DEF Waiting, Answer, Statuses
<1>a. ASSUME NEW h \in Halves, NEW chunks \in Seq(Documents), NEW status \in Statuses,
             HalfEnds(h, Answer(status, chunks))
      PROVE  HalvesTyped'
  <2>1. Answer(status, chunks) \in [status : Statuses, chunks : Seq(Documents)]
    BY DEF Answer
  <2>2. half' = [half EXCEPT ![h] = Answer(status, chunks)]
    BY <1>a DEF HalfEnds
  <2>3. QED
    BY <2>1, <2>2 DEF HalvesTyped
<1>1. CASE Ask
  <2>1. PICK dense0 \in {Answer("waiting", <<>>), Answer("skipped", <<>>)} :
           half' = [Waiting EXCEPT !["dense"] = dense0]
    BY <1>1 DEF Ask
  <2>2. dense0 \in [status : Statuses, chunks : Seq(Documents)]
    <3>1. \A status \in Statuses : Answer(status, <<>>) \in [status : Statuses, chunks : Seq(Documents)]
      BY <1>0 DEF Answer
    <3>2. "waiting" \in Statuses /\ "skipped" \in Statuses
      BY DEF Statuses
    <3>3. QED
      BY <3>1, <3>2
  <2>3. QED
    BY <1>w, <2>1, <2>2 DEF HalvesTyped
<1>2. CASE DenseAnswers
  <2>1. PICK order \in SetToSeqs(Documents) :
           HalfEnds("dense", Answer("answered", Hits(order, dense)))
    BY <1>2 DEF DenseAnswers
  <2>2. dense \in [Documents -> Nat]
    BY SyncAssumption DEF SyncTypeOK
  <2>3. Hits(order, dense) \in Seq(Documents)
    BY <2>2, HitsType, OrdersAreLists
  <2>4. "dense" \in Halves /\ "answered" \in Statuses
    BY DEF Halves, Statuses
  <2>5. QED
    BY <1>a, <2>1, <2>3, <2>4
<1>3. CASE LexicalAnswers
  <2>1. PICK order \in SetToAllKPermutations(Documents) :
           HalfEnds("lexical", Answer("answered", Hits(order, RowsOf)))
    BY <1>3 DEF LexicalAnswers
  <2>2. Hits(order, RowsOf) \in Seq(Documents)
    BY RowsOfType, HitsType, OrdersAreLists
  <2>3. "lexical" \in Halves /\ "answered" \in Statuses
    BY DEF Halves, Statuses
  <2>4. QED
    BY <1>a, <2>1, <2>2, <2>3
<1>4. CASE Return
  BY <1>4, <1>w DEF Return, HalvesTyped
<1>5. ASSUME NEW h \in Halves, HalfFails(h) PROVE HalvesTyped'
  <2>1. "failed" \in Statuses /\ HalfEnds(h, Answer("failed", <<>>))
    BY <1>5 DEF Statuses, HalfFails
  <2>2. QED
    BY <1>0, <1>a, <2>1
<1>6. CASE UNCHANGED half
  BY <1>6 DEF HalvesTyped
<1>7. QED
  BY <1>1, <1>2, <1>3, <1>4, <1>5, <1>6 DEF Next, SearchNext, vars, searchVars

(* The types of a search beside any number of syncs. *)
LEMMA HalvesHold == Spec => [](SyncTypeOK /\ HalvesTyped)
<1> DEFINE Inv == SyncTypeOK /\ HalvesTyped
<1>1. Init => Inv
  <2>1. SyncInit => SyncTypeOK
    BY SyncAssumption DEF SyncInit, SyncTypeOK, Syncs, Steps, Rows
  <2>2. <<>> \in Seq(Documents)
    OBVIOUS
  <2>3. SearchInit => HalvesTyped
    BY <2>2 DEF SearchInit, HalvesTyped, Waiting, Answer, Statuses
  <2>4. QED
    BY <2>1, <2>3 DEF Init
<1>2. Inv /\ [Next]_vars => Inv'
  <2>1. [Next]_vars => [SyncNext]_syncVars
    BY DEF Next, vars, SearchNext, Ask, DenseAnswers, LexicalAnswers, HalfFails, HalfEnds, Return
  <2>2. QED
    BY <2>1, TypeStep, HalvesStep
<1>3. QED
  BY <1>1, <1>2, PTL DEF Spec

(* reciprocal_rank_fusion and the cut after it, for every number of         *)
(* documents, candidates and results and every k: as long as neither half   *)
(* repeats a chunk, what the agent is shown are the best of all that either *)
(* half found, by the documented score and best first, none twice and none  *)
(* left out while there is room, whichever half failed.                     *)
THEOREM FusionIsAsDocumented == Spec => []FusionAsDocumented
<1>1. SyncTypeOK /\ HalvesTyped => FusionAsDocumented
  BY FusionHolds
<1>2. QED
  BY <1>1, HalvesHold, PTL

----------------------------------------------------------------------------
(* after[k] is the gain of the first k entries. *)
GainGoes(after, list, relevant) ==
    /\ Gain(list, relevant) = after[Len(list)]
    /\ after[0] = 0
    /\ \A k \in 0..(Len(list) - 1) :
         after[k+1] = IF list[k+1] \in relevant THEN after[k] + Discount[k+1] ELSE after[k]

(* Gain goes through a list from its first entry to its last. *)
LEMMA GainFold ==
    ASSUME NEW list \in Seq(Documents), Len(list) <= Len(Discount), NEW relevant
    PROVE  \E after : GainGoes(after, list, relevant)
<1>0. /\ Len(list) \in Nat /\ DOMAIN list = 1..Len(list)
      /\ \A i \in 1..Len(list) : Discount[i] \in Nat
  BY EvaluationAssumption
<1> DEFINE n == Len(list)
           idx == [i \in DOMAIN list |-> i]
           Body(g) == [s \in SUBSET DOMAIN idx |->
                         IF s = {} THEN 0
                         ELSE LET x == Max(s)
                              IN IF list[idx[x]] \in relevant THEN g[s \ {x}] + Discount[idx[x]]
                                 ELSE g[s \ {x}]]
           it == CHOOSE g : g = Body(g)
<1>1. Gain(list, relevant) = it[DOMAIN idx]
  BY DEF Gain, FoldLeftDomain, FoldLeft, MapThenFoldSet
<1>d. DOMAIN idx = 1..n /\ \A i \in 1..n : idx[i] = i
  BY <1>0
<1> HIDE DEF idx
<1>2. \E g : g = Body(g)
  <2> DEFINE F == [i \in 1..n |-> [v \in Nat |-> IF list[i] \in relevant THEN v + Discount[i] ELSE v]]
  <2>1. ASSUME NEW i \in 1..n, NEW v \in Nat
        PROVE  /\ F[i][v] = IF list[i] \in relevant THEN v + Discount[i] ELSE v
               /\ F[i][v] \in Nat
    BY <1>0
  <2> HIDE DEF F
  <2>2. PICK g : LeftFolds(g, n, Nat, 0, F)
    BY <1>0, <2>1, LeftFoldExists
  <2>3. /\ g \in [SUBSET (1..n) -> Nat]
        /\ g[{}] = 0
        /\ \A s \in SUBSET (1..n) : s # {} =>
             /\ Max(s) \in 1..n
             /\ s \ {Max(s)} \in SUBSET (1..n)
             /\ g[s] = F[Max(s)][g[s \ {Max(s)}]]
    BY <2>2 DEF LeftFolds
  <2>4. ASSUME NEW s \in SUBSET (1..n)
        PROVE  g[s] = IF s = {} THEN 0
                      ELSE LET x == Max(s)
                           IN IF list[idx[x]] \in relevant THEN g[s \ {x}] + Discount[idx[x]]
                              ELSE g[s \ {x}]
    <3>1. CASE s = {}
      BY <2>3, <3>1
    <3>2. CASE s # {}
      <4>1. /\ Max(s) \in 1..n
            /\ g[s \ {Max(s)}] \in Nat
            /\ g[s] = F[Max(s)][g[s \ {Max(s)}]]
        BY <2>3, <3>2
      <4>2. g[s] = IF list[Max(s)] \in relevant THEN g[s \ {Max(s)}] + Discount[Max(s)]
                   ELSE g[s \ {Max(s)}]
        BY <2>1, <4>1
      <4>3. idx[Max(s)] = Max(s)
        BY <1>d, <4>1
      <4>4. QED
        BY <3>2, <4>2, <4>3
    <3>3. QED
      BY <3>1, <3>2
  <2>5. g = [s \in SUBSET (1..n) |-> g[s]]
    BY <2>3
  <2>6. g = Body(g)
    BY <1>d, <2>4, <2>5
  <2>7. QED
    BY <2>6
<1>3. it = Body(it)
  BY <1>2
<1> HIDE DEF it
<1>4. \A s \in SUBSET (1..n) :
         it[s] = IF s = {} THEN 0
                 ELSE LET x == Max(s)
                      IN IF list[idx[x]] \in relevant THEN it[s \ {x}] + Discount[idx[x]]
                         ELSE it[s \ {x}]
  <2>1. it = [s \in SUBSET DOMAIN idx |->
                IF s = {} THEN 0
                ELSE LET x == Max(s)
                     IN IF list[idx[x]] \in relevant THEN it[s \ {x}] + Discount[idx[x]]
                        ELSE it[s \ {x}]]
    BY <1>3
  <2> HIDE DEF Body
  <2>2. QED
    BY <1>d, <2>1
<1>5. ASSUME NEW k \in 1..n
      PROVE  it[1..k] = IF list[k] \in relevant THEN it[1..(k-1)] + Discount[k] ELSE it[1..(k-1)]
  <2>1. /\ 1..k \in SUBSET (1..n) /\ 1..k # {}
        /\ Max(1..k) = k /\ idx[k] = k
        /\ (1..k) \ {k} = 1..(k-1)
    BY <1>0, <1>d, PrefixStep
  <2>2. QED
    BY <1>4, <2>1
<1>6. it[1..0] = 0
  <2>1. 1..0 = {} /\ {} \in SUBSET (1..n)
    OBVIOUS
  <2>2. QED
    BY <1>4, <2>1
<1> DEFINE after == [k \in 0..n |-> it[1..k]]
<1>7. after[0] = 0 /\ Gain(list, relevant) = after[n]
  BY <1>0, <1>1, <1>d, <1>6
<1>8. ASSUME NEW k \in 0..(n-1)
      PROVE  after[k+1] = IF list[k+1] \in relevant THEN after[k] + Discount[k+1] ELSE after[k]
  <2>1. k + 1 \in 1..n /\ k \in 0..n /\ k + 1 \in 0..n /\ (k + 1) - 1 = k
    BY <1>0
  <2>2. it[1..(k+1)] = IF list[k+1] \in relevant THEN it[1..((k+1)-1)] + Discount[k+1]
                       ELSE it[1..((k+1)-1)]
    BY <1>5, <2>1
  <2>3. after[k+1] = it[1..(k+1)] /\ after[k] = it[1..k]
    BY <2>1
  <2>4. QED
    BY <2>1, <2>2, <2>3
<1> HIDE DEF after
<1>9. GainGoes(after, list, relevant)
  BY <1>7, <1>8 DEF GainGoes
<1>10. QED
  BY <1>9

(* The sum of a list adds up its entries one after the other. *)
LEMMA SumFold ==
    ASSUME NEW list \in Seq(Nat)
    PROVE  \E total : /\ TotalOf(list) = total[Len(list)]
                      /\ total[0] = 0
                      /\ \A k \in 0..(Len(list) - 1) : total[k+1] = total[k] + list[k+1]
<1>0. /\ Len(list) \in Nat /\ DOMAIN list = 1..Len(list)
      /\ \A i \in 1..Len(list) : list[i] \in Nat
  OBVIOUS
<1> DEFINE n == Len(list)
           Body(g) == [s \in SUBSET DOMAIN list |->
                         IF s = {} THEN 0 ELSE LET x == Max(s) IN g[s \ {x}] + list[x]]
           it == CHOOSE g : g = Body(g)
<1>1. TotalOf(list) = it[DOMAIN list]
  BY DEF TotalOf, FoldLeft, MapThenFoldSet
<1>2. \E g : g = Body(g)
  <2> DEFINE F == [i \in 1..n |-> [v \in Nat |-> v + list[i]]]
  <2>1. ASSUME NEW i \in 1..n, NEW v \in Nat
        PROVE  F[i][v] = v + list[i] /\ F[i][v] \in Nat
    BY <1>0
  <2> HIDE DEF F
  <2>2. PICK g : LeftFolds(g, n, Nat, 0, F)
    BY <1>0, <2>1, LeftFoldExists
  <2>3. /\ g \in [SUBSET (1..n) -> Nat]
        /\ g[{}] = 0
        /\ \A s \in SUBSET (1..n) : s # {} =>
             /\ Max(s) \in 1..n
             /\ s \ {Max(s)} \in SUBSET (1..n)
             /\ g[s] = F[Max(s)][g[s \ {Max(s)}]]
    BY <2>2 DEF LeftFolds
  <2>4. ASSUME NEW s \in SUBSET (1..n)
        PROVE  g[s] = IF s = {} THEN 0 ELSE g[s \ {Max(s)}] + list[Max(s)]
    <3>1. CASE s = {}
      BY <2>3, <3>1
    <3>2. CASE s # {}
      <4>1. /\ Max(s) \in 1..n
            /\ g[s \ {Max(s)}] \in Nat
            /\ g[s] = F[Max(s)][g[s \ {Max(s)}]]
        BY <2>3, <3>2
      <4>2. QED
        BY <2>1, <3>2, <4>1
    <3>3. QED
      BY <3>1, <3>2
  <2>5. g = [s \in SUBSET (1..n) |-> g[s]]
    BY <2>3
  <2>6. g = Body(g)
    BY <1>0, <2>4, <2>5
  <2>7. QED
    BY <2>6
<1>3. it = Body(it)
  BY <1>2
<1> HIDE DEF it
<1>4. \A s \in SUBSET (1..n) :
         it[s] = IF s = {} THEN 0 ELSE it[s \ {Max(s)}] + list[Max(s)]
  <2>1. it = [s \in SUBSET DOMAIN list |->
                IF s = {} THEN 0 ELSE it[s \ {Max(s)}] + list[Max(s)]]
    BY <1>3
  <2> HIDE DEF Body
  <2>2. QED
    BY <1>0, <2>1
<1>5. ASSUME NEW k \in 1..n PROVE it[1..k] = it[1..(k-1)] + list[k]
  <2>1. /\ 1..k \in SUBSET (1..n) /\ 1..k # {}
        /\ Max(1..k) = k
        /\ (1..k) \ {k} = 1..(k-1)
    BY <1>0, PrefixStep
  <2>2. QED
    BY <1>4, <2>1
<1>6. it[1..0] = 0
  <2>1. 1..0 = {} /\ {} \in SUBSET (1..n)
    OBVIOUS
  <2>2. QED
    BY <1>4, <2>1
<1> DEFINE total == [k \in 0..n |-> it[1..k]]
<1>7. total[0] = 0 /\ TotalOf(list) = total[n]
  BY <1>0, <1>1, <1>6
<1>8. ASSUME NEW k \in 0..(n-1) PROVE total[k+1] = total[k] + list[k+1]
  <2>1. k + 1 \in 1..n /\ k \in 0..n /\ k + 1 \in 0..n /\ (k + 1) - 1 = k
    BY <1>0
  <2>2. it[1..(k+1)] = it[1..((k+1)-1)] + list[k+1]
    BY <1>5, <2>1
  <2>3. total[k+1] = it[1..(k+1)] /\ total[k] = it[1..k]
    BY <2>1
  <2>4. QED
    BY <2>1, <2>2, <2>3
<1> HIDE DEF total
<1>9. QED
  BY <1>7, <1>8

(* The ideal gain grows with every relevant chunk it has room for. *)
LEMMA TotalFacts ==
    ASSUME NEW m \in Nat, m <= EvalK
    PROVE  \E total : /\ TotalOf(CutTo(m, Discount)) = total[m]
                      /\ \A k \in 0..m : total[k] \in Nat
                      /\ total[0] = 0
                      /\ \A k \in 0..(m-1) : total[k+1] = total[k] + Discount[k+1]
                      /\ \A j \in 0..m : j < m => total[j] < total[m]
<1> DEFINE list == CutTo(m, Discount)
<1>0. /\ Discount \in Seq(Nat) /\ Len(Discount) \in Nat /\ m <= Len(Discount)
      /\ \A i \in 1..Len(Discount) : Discount[i] \in Nat /\ Discount[i] > 0
  <2>1. Discount \in Seq(Nat \ {0}) /\ EvalK \in Nat /\ Len(Discount) >= EvalK
    BY EvaluationAssumption
  <2>2. Len(Discount) \in Nat /\ Discount \in Seq(Nat)
        /\ \A i \in 1..Len(Discount) : Discount[i] \in Nat \ {0}
    BY <2>1
  <2>3. QED
    BY <2>1, <2>2
<1>1. list \in Seq(Nat) /\ Len(list) = m /\ \A i \in 1..m : list[i] = Discount[i]
  <2>1. /\ list \in Seq(Nat)
        /\ Len(list) = IF Len(Discount) < m THEN Len(Discount) ELSE m
        /\ \A i \in 1..Len(list) : list[i] = Discount[i]
    BY <1>0, CutFacts
  <2>2. Len(list) = m
    BY <1>0, <2>1
  <2>3. QED
    BY <2>1, <2>2
<1> HIDE DEF list
<1>2. PICK total : /\ TotalOf(list) = total[m]
                   /\ total[0] = 0
                   /\ \A k \in 0..(m-1) : total[k+1] = total[k] + list[k+1]
  BY <1>1, SumFold
<1>3. \A k \in 0..(m-1) : total[k+1] = total[k] + Discount[k+1]
  <2> TAKE k \in 0..(m-1)
  <2>1. k + 1 \in 1..m
    OBVIOUS
  <2>2. QED
    BY <1>1, <1>2, <2>1
<1> DEFINE T == {k \in 0..m : /\ total[k] \in Nat
                              /\ \A j \in 0..m : j < k => total[j] \in Nat /\ total[j] < total[k]}
<1>4. 0 \in T
  BY <1>2
<1>5. ASSUME NEW k \in 0..m, k \in T, k # m PROVE k + 1 \in T
  <2>1. /\ k \in 0..(m-1) /\ k + 1 \in 0..m /\ k + 1 \in 1..Len(Discount)
        /\ Discount[k+1] \in Nat /\ Discount[k+1] > 0
    BY <1>0, <1>5
  <2>2. total[k+1] = total[k] + Discount[k+1] /\ total[k] \in Nat
    BY <1>3, <1>5, <2>1
  <2>3. total[k+1] \in Nat /\ total[k] < total[k+1]
    BY <2>1, <2>2
  <2>4. ASSUME NEW j \in 0..m, j < k + 1 PROVE total[j] \in Nat /\ total[j] < total[k+1]
    <3>1. j = k \/ j < k
      BY <2>4
    <3>2. CASE j = k
      BY <2>2, <2>3, <3>2
    <3>3. CASE j < k
      <4>1. total[j] \in Nat /\ total[j] < total[k]
        BY <1>5, <3>3
      <4>2. QED
        BY <2>2, <2>3, <4>1
    <3>4. QED
      BY <3>1, <3>2, <3>3
  <2>5. QED
    BY <2>1, <2>3, <2>4
<1>6. \A k \in 0..m : k \in T
  <2> HIDE DEF T
  <2>1. \A k \in 0..m : k \in T /\ k # m => k + 1 \in T
    BY <1>5
  <2>2. QED
    BY <1>4, <2>1, Induction
<1>7. m \in 0..m
  OBVIOUS
<1>8. \A k \in 0..m : total[k] \in Nat
  BY <1>6
<1>9. \A j \in 0..m : j < m => total[j] < total[m]
  BY <1>6, <1>7
<1>10. QED
  BY <1>2, <1>3, <1>8, <1>9 DEF list

(* The positions up to k that hold something relevant. *)
Hit(list, relevant, k) == {i \in 1..k : list[i] \in relevant}

(* Their number is k exactly when they are all of 1..k. *)
LEMMA HitFacts ==
    ASSUME NEW list, NEW relevant, NEW k \in Nat
    PROVE  /\ IsFiniteSet(Hit(list, relevant, k))
           /\ Cardinality(Hit(list, relevant, k)) \in 0..k
           /\ Cardinality(Hit(list, relevant, k)) = k => Hit(list, relevant, k) = 1..k
           /\ \A m \in Nat : m <= k /\ 1..m \subseteq Hit(list, relevant, k) =>
                m <= Cardinality(Hit(list, relevant, k))
           /\ Cardinality(Hit(list, relevant, k)) = 0 <=> Hit(list, relevant, k) = {}
<1> DEFINE H == Hit(list, relevant, k)
<1>1. H \in SUBSET (1..k)
  BY DEF Hit
<1>2. \A m \in Nat : IsFiniteSet(1..m) /\ Cardinality(1..m) = m
  BY CountTo
<1> HIDE DEF H
<1>3. IsFiniteSet(H) /\ Cardinality(H) <= k /\ (Cardinality(H) = k => H = 1..k)
  <2>1. IsFiniteSet(1..k) /\ Cardinality(1..k) = k
    BY <1>2
  <2>2. /\ IsFiniteSet(H) /\ Cardinality(H) <= Cardinality(1..k)
        /\ Cardinality(1..k) = Cardinality(H) => 1..k = H
    BY <1>1, <2>1, FS_Subset
  <2>3. QED
    BY <2>1, <2>2
<1>4. Cardinality(H) \in Nat /\ (Cardinality(H) = 0 <=> H = {})
  BY <1>3, FS_CardinalityType, FS_EmptySet
<1>5. ASSUME NEW m \in Nat, 1..m \subseteq H PROVE m <= Cardinality(H)
  <2>1. 1..m \in SUBSET H
    BY <1>5
  <2>2. Cardinality(1..m) <= Cardinality(H)
    BY <1>3, <2>1, FS_Subset
  <2>3. QED
    BY <1>2, <2>2
<1>6. Cardinality(H) \in 0..k
  BY <1>3, <1>4
<1>7. QED
  BY <1>3, <1>4, <1>5, <1>6 DEF H

(* It grows by one with a relevant entry and stays with any other. *)
LEMMA HitStep ==
    ASSUME NEW list, NEW relevant, NEW k \in Nat
    PROVE  /\ Hit(list, relevant, 0) = {}
           /\ Cardinality(Hit(list, relevant, k + 1)) =
                IF list[k+1] \in relevant THEN Cardinality(Hit(list, relevant, k)) + 1
                ELSE Cardinality(Hit(list, relevant, k))
<1>1. \A i \in 1..(k+1) : i \in 1..k \/ i = k + 1
  OBVIOUS
<1>2. k + 1 \notin 1..k /\ k + 1 \in 1..(k+1) /\ \A i \in 1..k : i \in 1..(k+1)
  OBVIOUS
<1>3. IsFiniteSet(Hit(list, relevant, k)) /\ k + 1 \notin Hit(list, relevant, k)
  <2>1. k + 1 \notin Hit(list, relevant, k)
    BY <1>2 DEF Hit
  <2>2. QED
    BY <2>1, HitFacts
<1>4. ASSUME list[k+1] \in relevant
      PROVE  Cardinality(Hit(list, relevant, k + 1)) = Cardinality(Hit(list, relevant, k)) + 1
  <2>1. Hit(list, relevant, k + 1) = Hit(list, relevant, k) \cup {k + 1}
    BY <1>1, <1>2, <1>4 DEF Hit
  <2>2. QED
    BY <1>3, <2>1, FS_AddElement
<1>5. ASSUME list[k+1] \notin relevant
      PROVE  Cardinality(Hit(list, relevant, k + 1)) = Cardinality(Hit(list, relevant, k))
  <2>1. Hit(list, relevant, k + 1) = Hit(list, relevant, k)
    BY <1>1, <1>2, <1>5 DEF Hit
  <2>2. QED
    BY <2>1
<1>6. Hit(list, relevant, 0) = {}
  BY DEF Hit
<1>7. QED
  BY <1>4, <1>5, <1>6

(* Gain is zero without a relevant entry and positive with one. *)
LEMMA GainSeesHits ==
    ASSUME NEW list \in Seq(Documents), Len(list) <= Len(Discount), NEW relevant
    PROVE  /\ Gain(list, relevant) \in Nat
           /\ Gain(list, relevant) > 0 <=> \E i \in 1..Len(list) : list[i] \in relevant
<1> DEFINE n == Len(list)
<1>0. n \in Nat /\ \A i \in 1..n : Discount[i] \in Nat /\ Discount[i] > 0
  BY EvaluationAssumption
<1>p. PICK after : GainGoes(after, list, relevant)
  BY GainFold
<1>1. /\ Gain(list, relevant) = after[n]
      /\ after[0] = 0
      /\ \A k \in 0..(n-1) :
           after[k+1] = IF list[k+1] \in relevant THEN after[k] + Discount[k+1] ELSE after[k]
  BY <1>p DEF GainGoes
<1> DEFINE T == {k \in 0..n : /\ after[k] \in Nat
                              /\ after[k] > 0 <=> \E i \in 1..k : list[i] \in relevant}
<1>2. 0 \in T
  BY <1>0, <1>1
<1>3. ASSUME NEW k \in 0..n, k \in T, k # n PROVE k + 1 \in T
  <2>1. /\ k + 1 \in 1..n /\ k + 1 \in 0..n /\ k \in 0..(n-1) /\ k \in Nat
        /\ Discount[k+1] \in Nat /\ Discount[k+1] > 0
    BY <1>0, <1>3
  <2>2. after[k+1] = IF list[k+1] \in relevant THEN after[k] + Discount[k+1] ELSE after[k]
    BY <1>1, <2>1
  <2>3. after[k] \in Nat /\ (after[k] > 0 <=> \E i \in 1..k : list[i] \in relevant)
    BY <1>3
  <2>4. (\E i \in 1..(k+1) : list[i] \in relevant) <=>
           list[k+1] \in relevant \/ \E i \in 1..k : list[i] \in relevant
    <3>1. 1..(k+1) = 1..k \cup {k + 1}
      BY <2>1
    <3>2. QED
      BY <3>1
  <2>5. after[k+1] \in Nat /\ (after[k+1] > 0 <=> list[k+1] \in relevant \/ after[k] > 0)
    BY <2>1, <2>2, <2>3
  <2>6. QED
    BY <2>1, <2>3, <2>4, <2>5
<1>4. \A k \in 0..n : k \in T
  <2> HIDE DEF T
  <2>1. \A k \in 0..n : k \in T /\ k # n => k + 1 \in T
    BY <1>3
  <2> HIDE DEF n
  <2>2. QED
    BY <1>0, <1>2, <2>1, Induction
<1>5. n \in 0..n
  BY <1>0
<1>6. QED
  BY <1>1, <1>4, <1>5

(* Prefix by prefix the gain is at most the ideal gain of as many relevant  *)
(* entries, and equal only as long as all of them stand at the top: a       *)
(* relevant entry further down earns a smaller discount.                    *)
LEMMA GainBound ==
    ASSUME NEW list \in Seq(Documents), Len(list) <= EvalK, NEW relevant,
           NEW m \in Nat, m <= EvalK, Cardinality(Hit(list, relevant, Len(list))) <= m
    PROVE  /\ Gain(list, relevant) <= TotalOf(CutTo(m, Discount))
           /\ Gain(list, relevant) = TotalOf(CutTo(m, Discount)) <=>
                m <= Len(list) /\ \A i \in 1..m : list[i] \in relevant
<1> DEFINE n == Len(list)
           g == [k \in 0..n |-> Cardinality(Hit(list, relevant, k))]
<1>0. /\ n \in Nat /\ n <= Len(Discount) /\ Len(Discount) \in Nat
      /\ \A i \in 1..n : Discount[i] \in Nat
      /\ \A i, j \in 1..n : i < j => Discount[i] > Discount[j]
  <2>1. /\ Discount \in Seq(Nat \ {0}) /\ EvalK \in Nat /\ Len(Discount) >= EvalK
        /\ \A i, j \in DOMAIN Discount : i < j => Discount[i] > Discount[j]
    BY EvaluationAssumption
  <2>2. n \in Nat /\ n <= EvalK
    OBVIOUS
  <2>3. /\ Len(Discount) \in Nat /\ DOMAIN Discount = 1..Len(Discount)
        /\ \A i \in 1..Len(Discount) : Discount[i] \in Nat
    BY <2>1
  <2> HIDE DEF n
  <2>4. n <= Len(Discount) /\ \A i \in 1..n : i \in 1..Len(Discount)
    BY <2>1, <2>2, <2>3
  <2>5. QED
    BY <2>1, <2>2, <2>3, <2>4
<1>p. PICK after : GainGoes(after, list, relevant)
  BY <1>0, GainFold
<1>1. /\ Gain(list, relevant) = after[n]
      /\ after[0] = 0
      /\ \A k \in 0..(n-1) :
           after[k+1] = IF list[k+1] \in relevant THEN after[k] + Discount[k+1] ELSE after[k]
  BY <1>p DEF GainGoes
<1>2. PICK total : /\ TotalOf(CutTo(m, Discount)) = total[m]
                   /\ \A k \in 0..m : total[k] \in Nat
                   /\ total[0] = 0
                   /\ \A k \in 0..(m-1) : total[k+1] = total[k] + Discount[k+1]
                   /\ \A j \in 0..m : j < m => total[j] < total[m]
  BY TotalFacts
<1>3. ASSUME NEW k \in 0..n
      PROVE  /\ g[k] \in Nat /\ g[k] <= k /\ g[k] <= m
             /\ g[k] = k => \A i \in 1..k : list[i] \in relevant
             /\ \A j \in Nat : j <= k /\ (\A i \in 1..j : list[i] \in relevant) => j <= g[k]
  <2>1. k \in Nat /\ g[k] = Cardinality(Hit(list, relevant, k))
    BY <1>0
  <2>2. /\ g[k] \in 0..k
        /\ g[k] = k => Hit(list, relevant, k) = 1..k
        /\ \A j \in Nat : j <= k /\ 1..j \subseteq Hit(list, relevant, k) => j <= g[k]
    BY <2>1, HitFacts
  <2>3. Hit(list, relevant, k) \in SUBSET Hit(list, relevant, n) /\ IsFiniteSet(Hit(list, relevant, n))
    <3>1. Hit(list, relevant, k) \in SUBSET Hit(list, relevant, n)
      BY <1>0 DEF Hit
    <3>2. QED
      BY <1>0, <3>1, HitFacts
  <2>4. g[k] <= Cardinality(Hit(list, relevant, n)) /\ Cardinality(Hit(list, relevant, n)) \in Nat
    BY <2>1, <2>3, FS_Subset, FS_CardinalityType
  <2>5. Cardinality(Hit(list, relevant, n)) <= m
    OBVIOUS
  <2> HIDE DEF g, n
  <2>6. g[k] \in Nat /\ g[k] <= k /\ g[k] <= m
    BY <2>1, <2>2, <2>4, <2>5
  <2>7. g[k] = k => \A i \in 1..k : list[i] \in relevant
    BY <2>2 DEF Hit
  <2>8. ASSUME NEW j \in Nat, j <= k, \A i \in 1..j : list[i] \in relevant PROVE j <= g[k]
    <3>1. 1..j \subseteq Hit(list, relevant, k)
      BY <2>1, <2>8 DEF Hit
    <3>2. QED
      BY <2>2, <2>8, <3>1
  <2>9. QED
    BY <2>6, <2>7, <2>8
<1>4. g[0] = 0
  <2>1. Hit(list, relevant, 0) = {} /\ 0 \in 0..n
    BY <1>0 DEF Hit
  <2>2. QED
    BY <2>1, FS_EmptySet
<1>5. ASSUME NEW k \in 0..(n-1)
      PROVE  g[k+1] = IF list[k+1] \in relevant THEN g[k] + 1 ELSE g[k]
  <2>1. k \in Nat /\ k \in 0..n /\ k + 1 \in 0..n
    BY <1>0
  <2>2. QED
    BY <2>1, HitStep
<1> HIDE DEF g
<1> DEFINE Packed(k) == \A i \in 1..g[k] : list[i] \in relevant
           T == {k \in 0..n : /\ after[k] \in Nat
                              /\ after[k] <= total[g[k]]
                              /\ after[k] = total[g[k]] <=> Packed(k)}
<1>6. 0 \in T
  BY <1>0, <1>1, <1>2, <1>4
<1>7. ASSUME NEW k \in 0..n, k \in T, k # n PROVE k + 1 \in T
  <2>1. /\ k + 1 \in 1..n /\ k + 1 \in 0..n /\ k \in 0..(n-1) /\ k \in Nat
        /\ Discount[k+1] \in Nat
    BY <1>0, <1>7
  <2>2. after[k] \in Nat /\ after[k] <= total[g[k]] /\ (after[k] = total[g[k]] <=> Packed(k))
    BY <1>7
  <2>3. /\ g[k] \in Nat /\ g[k] <= k
        /\ g[k+1] \in Nat /\ g[k+1] <= k + 1 /\ g[k+1] <= m
        /\ g[k] = k => \A i \in 1..k : list[i] \in relevant
        /\ \A j \in Nat : j <= k /\ (\A i \in 1..j : list[i] \in relevant) => j <= g[k]
    BY <1>3, <2>1
  <2>4. CASE list[k+1] \notin relevant
    <3>1. g[k+1] = g[k] /\ after[k+1] = after[k]
      BY <1>1, <1>5, <2>1, <2>4
    <3>2. QED
      BY <2>1, <2>2, <3>1
  <2>5. CASE list[k+1] \in relevant
    <3>1. g[k+1] = g[k] + 1 /\ after[k+1] = after[k] + Discount[k+1]
      BY <1>1, <1>5, <2>1, <2>5
    <3>2. g[k] \in 0..(m-1) /\ g[k] \in 0..m /\ g[k] + 1 \in 1..n
      BY <2>1, <2>3, <3>1
    <3>3. total[g[k] + 1] = total[g[k]] + Discount[g[k] + 1] /\ total[g[k]] \in Nat
      BY <1>2, <3>2
    <3>4. Discount[g[k] + 1] \in Nat
      BY <1>0, <3>2
    <3>5. CASE g[k] = k
      <4>1. \A i \in 1..(k+1) : list[i] \in relevant
        <5>1. \A i \in 1..(k+1) : i \in 1..k \/ i = k + 1
          BY <2>1
        <5>2. QED
          BY <2>3, <2>5, <3>5, <5>1
      <4>2. Packed(k+1) /\ Packed(k)
        BY <2>1, <3>1, <3>5, <4>1
      <4>3. after[k] = total[g[k]]
        BY <2>2, <4>2
      <4>4. after[k+1] = total[g[k+1]] /\ after[k+1] \in Nat
        BY <2>1, <2>2, <3>1, <3>3, <3>5, <4>3
      <4>5. QED
        BY <2>1, <4>2, <4>4
    <3>6. CASE g[k] # k
      <4>1. g[k] + 1 < k + 1 /\ g[k] + 1 \in Nat /\ g[k] + 1 <= k
        BY <2>1, <2>3, <3>6
      <4>2. Discount[g[k] + 1] > Discount[k+1]
        BY <1>0, <2>1, <3>2, <4>1
      <4>3. after[k] + Discount[k+1] < total[g[k]] + Discount[g[k] + 1]
        BY <2>1, <2>2, <3>3, <3>4, <4>2
      <4>4. after[k+1] < total[g[k+1]] /\ after[k+1] \in Nat /\ total[g[k+1]] \in Nat
        BY <2>1, <2>2, <3>1, <3>3, <3>4, <4>3
      <4>5. ~Packed(k+1)
        <5>1. ~(g[k] + 1 <= g[k])
          BY <2>3
        <5>2. ~ \A i \in 1..(g[k]+1) : list[i] \in relevant
          BY <2>3, <4>1, <5>1
        <5>3. QED
          BY <3>1, <5>2
      <4>6. after[k+1] <= total[g[k+1]] /\ after[k+1] # total[g[k+1]]
        BY <4>4
      <4>7. QED
        BY <2>1, <4>4, <4>5, <4>6
    <3>7. QED
      BY <3>5, <3>6
  <2>6. QED
    BY <2>4, <2>5
<1>8. \A k \in 0..n : k \in T
  <2> HIDE DEF T
  <2>1. \A k \in 0..n : k \in T /\ k # n => k + 1 \in T
    BY <1>7
  <2> HIDE DEF n
  <2>2. QED
    BY <1>0, <1>6, <2>1, Induction
<1>9. n \in 0..n /\ n \in Nat
  BY <1>0
<1>10. /\ after[n] \in Nat /\ after[n] <= total[g[n]]
       /\ after[n] = total[g[n]] <=> \A i \in 1..g[n] : list[i] \in relevant
  BY <1>8, <1>9
<1>11. /\ g[n] \in Nat /\ g[n] <= n /\ g[n] <= m
       /\ \A j \in Nat : j <= n /\ (\A i \in 1..j : list[i] \in relevant) => j <= g[n]
  BY <1>3, <1>9
<1>12. total[g[n]] \in Nat /\ total[m] \in Nat /\ (g[n] < m => total[g[n]] < total[m])
  <2>1. g[n] \in 0..m /\ m \in 0..m
    BY <1>11
  <2>2. QED
    BY <1>2, <2>1
<1> HIDE DEF n
<1>13. after[n] <= total[m]
  <2>1. CASE g[n] = m
    BY <1>10, <2>1
  <2>2. CASE g[n] # m
    <3>1. g[n] < m
      BY <1>11, <2>2
    <3>2. QED
      BY <1>10, <1>12, <3>1
  <2>3. QED
    BY <2>1, <2>2
<1>14. ASSUME after[n] = total[m] PROVE m <= n /\ \A i \in 1..m : list[i] \in relevant
  <2>1. g[n] = m
    <3>1. ~(g[n] < m)
      BY <1>10, <1>12, <1>14
    <3>2. QED
      BY <1>11, <3>1
  <2>2. QED
    BY <1>10, <1>11, <1>14, <2>1
<1>15. ASSUME m <= n, \A i \in 1..m : list[i] \in relevant PROVE after[n] = total[m]
  <2>1. g[n] = m
    <3>1. m <= g[n]
      BY <1>11, <1>15
    <3>2. QED
      BY <1>11, <3>1
  <2>2. QED
    BY <1>10, <1>15, <2>1
<1>16. QED
  BY <1>1, <1>2, <1>13, <1>14, <1>15 DEF n

(* FirstRelevant is the first position that holds something relevant. *)
LEMMA FirstRelevantFacts ==
    ASSUME NEW list \in Seq(Documents), NEW relevant
    PROVE  LET first == FirstRelevant(list, relevant)
           IN  \/ /\ \A i \in 1..Len(list) : list[i] \notin relevant
                  /\ first = 0
               \/ /\ first \in 1..Len(list) /\ list[first] \in relevant
                  /\ \A i \in 1..Len(list) : list[i] \in relevant => first <= i
<1> DEFINE I == {i \in 1..Len(list) : list[i] \in relevant}
<1>1. FirstRelevant(list, relevant) = IF I # {} THEN Min(I) ELSE 0
  BY DEF FirstRelevant, SelectInSeq
<1>2. CASE I = {}
  BY <1>1, <1>2
<1>3. CASE I # {}
  <2>1. I \in SUBSET Nat
    OBVIOUS
  <2>2. \E x \in I : \A y \in I : x <= y
    <3> HIDE DEF I
    <3>1. QED
      BY <1>3, <2>1, LeastNat
  <2>3. Min(I) \in I /\ \A y \in I : Min(I) <= y
    BY <2>2 DEF Min
  <2>4. QED
    BY <1>1, <1>3, <2>3
<1>4. QED
  BY <1>2, <1>3

(* A list without repeats holds at most all that is relevant. *)
LEMMA NumberFound ==
    ASSUME NEW list \in Seq(Documents), IsInjective(list), NEW relevant \in SUBSET Documents
    PROVE  Cardinality(Hit(list, relevant, Len(list))) <= Cardinality(relevant)
<1> DEFINE H == Hit(list, relevant, Len(list))
           f == [i \in H |-> list[i]]
<1>1. IsFiniteSet(relevant)
  BY SyncAssumption, FS_Subset
<1>2. DOMAIN list = 1..Len(list) /\ \A i \in H : i \in 1..Len(list) /\ list[i] \in relevant
  BY DEF Hit
<1> HIDE DEF H
<1>3. f \in [H -> relevant] /\ DOMAIN f = H
  BY <1>2
<1>4. \A i, j \in H : f[i] = f[j] => i = j
  BY <1>2 DEF IsInjective
<1> HIDE DEF f
<1>5. f \in Injection(H, relevant)
  BY <1>3, <1>4 DEF Injection, IsInjective
<1>6. QED
  BY <1>1, <1>5, FS_Injection DEF H

(* When the first entries of a list without repeats are as many relevant    *)
(* ones as there are, they are all of them; and the other way round.        *)
LEMMA TopIsAllRelevant ==
    ASSUME NEW list \in Seq(Documents), IsInjective(list), NEW relevant \in SUBSET Documents
    PROVE  LET c == Cardinality(relevant)
           IN  relevant \subseteq ToSet(CutTo(c, list)) <=>
                 c <= Len(list) /\ \A i \in 1..c : list[i] \in relevant
<1> DEFINE c == Cardinality(relevant)
           top == CutTo(c, list)
<1>1. IsFiniteSet(relevant) /\ c \in Nat
  <2>1. IsFiniteSet(relevant)
    BY SyncAssumption, FS_Subset
  <2>2. QED
    BY <2>1, FS_CardinalityType
<1>2. /\ top \in Seq(Documents)
      /\ Len(top) = IF Len(list) < c THEN Len(list) ELSE c
      /\ \A i \in 1..Len(top) : top[i] = list[i]
  BY <1>1, CutFacts
<1> HIDE DEF top
<1>3. /\ Len(list) \in Nat /\ DOMAIN list = 1..Len(list)
      /\ Len(top) \in Nat /\ DOMAIN top = 1..Len(top)
  BY <1>2
<1>4. IsFiniteSet(1..Len(top)) /\ Cardinality(1..Len(top)) = Len(top)
  <2>1. Len(top) \in Nat
    BY <1>3
  <2>2. QED
    BY <2>1, CountTo
<1>5. top \in Surjection(1..Len(top), ToSet(top))
  <2>1. top \in [1..Len(top) -> ToSet(top)]
    BY <1>2, <1>3 DEF ToSet
  <2>2. \A x \in ToSet(top) : \E i \in 1..Len(top) : top[i] = x
    BY <1>3 DEF ToSet
  <2>3. QED
    BY <2>1, <2>2 DEF Surjection
<1>6. IsFiniteSet(ToSet(top)) /\ Cardinality(ToSet(top)) <= Len(top) /\ Cardinality(ToSet(top)) \in Nat
  <2>1. IsFiniteSet(ToSet(top)) /\ Cardinality(ToSet(top)) <= Len(top)
    BY <1>4, <1>5, FS_Surjection
  <2>2. QED
    BY <2>1, FS_CardinalityType
<1>7. ASSUME relevant \subseteq ToSet(top)
      PROVE  c <= Len(list) /\ \A i \in 1..c : list[i] \in relevant
  <2>1. relevant \in SUBSET ToSet(top)
    BY <1>7
  <2>2. c <= Cardinality(ToSet(top)) /\ (Cardinality(ToSet(top)) = c => ToSet(top) = relevant)
    BY <1>6, <2>1, FS_Subset
  <2> HIDE DEF c
  <2>3. Len(top) = c /\ c <= Len(list) /\ Cardinality(ToSet(top)) = c
    <3>1. /\ c \in Nat /\ Len(list) \in Nat
          /\ Len(top) = IF Len(list) < c THEN Len(list) ELSE c
      BY <1>1, <1>2, <1>3
    <3>2. c <= Len(top) /\ Len(top) <= c /\ Len(top) <= Len(list)
      <4>1. Cardinality(ToSet(top)) \in Nat /\ Cardinality(ToSet(top)) <= Len(top)
        BY <1>6
      <4>2. Len(top) \in Nat
        BY <1>3
      <4>3. c <= Len(top)
        BY <2>2, <3>1, <4>1, <4>2
      <4>4. QED
        BY <3>1, <4>3
    <3>3. Len(top) = c
      BY <3>1, <3>2
    <3>4. Cardinality(ToSet(top)) \in Nat /\ Cardinality(ToSet(top)) <= c /\ c <= Cardinality(ToSet(top))
      BY <1>6, <2>2, <3>3
    <3>5. Cardinality(ToSet(top)) = c
      BY <3>1, <3>4
    <3>6. QED
      BY <3>2, <3>3, <3>5
  <2>4. \A i \in 1..c : top[i] \in ToSet(top) /\ top[i] = list[i]
    BY <1>2, <1>3, <2>3 DEF ToSet
  <2>5. QED
    BY <2>2, <2>3, <2>4
<1>8. ASSUME c <= Len(list), \A i \in 1..c : list[i] \in relevant
      PROVE  relevant \subseteq ToSet(top)
  <2>1. Len(top) = c
    BY <1>1, <1>2, <1>3, <1>8
  <2>2. \A i \in 1..c : top[i] \in relevant /\ top[i] = list[i] /\ i \in 1..Len(list)
    BY <1>1, <1>2, <1>3, <1>8, <2>1
  <2>3. top \in [1..c -> relevant] /\ DOMAIN top = 1..c
    BY <1>2, <1>3, <2>1, <2>2
  <2>4. \A i, j \in 1..c : top[i] = top[j] => i = j
    BY <1>3, <2>2 DEF IsInjective
  <2>5. top \in Injection(1..c, relevant)
    BY <2>3, <2>4 DEF Injection, IsInjective
  <2>6. Cardinality(1..c) = c
    BY <1>4, <2>1
  <2>7. top \in Surjection(1..c, relevant)
    BY <1>1, <2>5, <2>6, FS_Injection
  <2>8. \A d \in relevant : \E i \in 1..c : top[i] = d
    BY <2>7 DEF Surjection
  <2>9. QED
    BY <2>3, <2>8 DEF ToSet
<1>9. QED
  BY <1>7, <1>8 DEF top

(* The metrics of one query agree on every ranking. *)
LEMMA MetricsOfQuery ==
    ASSUME NEW retrieved \in Seq(Documents), NEW relevant \in SUBSET Documents
    PROVE  /\ Dcg(retrieved, relevant) > 0 <=> FoundAtK(retrieved, relevant) > 0
           /\ Dcg(retrieved, relevant) > 0 <=> FirstRelevant(retrieved, relevant) \in 1..EvalK
           /\ ~Repeats(retrieved) =>
                /\ Dcg(retrieved, relevant) <= IdealDcg(relevant)
                /\ Dcg(retrieved, relevant) = IdealDcg(relevant) <=>
                     \/ relevant \subseteq ToSet(CutTo(Cardinality(relevant), retrieved))
                     \/ /\ Len(retrieved) >= EvalK
                        /\ ToSet(CutTo(EvalK, retrieved)) \subseteq relevant
<1> DEFINE top == CutTo(EvalK, retrieved)
           c == Cardinality(relevant)
           m == IF c < EvalK THEN c ELSE EvalK
<1>0. EvalK \in Nat \ {0} /\ Len(Discount) \in Nat /\ EvalK <= Len(Discount)
      /\ Len(retrieved) \in Nat /\ DOMAIN retrieved = 1..Len(retrieved)
  BY EvaluationAssumption
<1>1. /\ top \in Seq(Documents)
      /\ Len(top) = IF Len(retrieved) < EvalK THEN Len(retrieved) ELSE EvalK
      /\ \A i \in 1..Len(top) : top[i] = retrieved[i]
  BY <1>0, CutFacts
<1> HIDE DEF top
<1>2. /\ DOMAIN top = 1..Len(top) /\ Len(top) \in Nat /\ Len(top) <= EvalK
      /\ Len(top) <= Len(Discount) /\ Len(top) <= Len(retrieved)
  <2>1. DOMAIN top = 1..Len(top) /\ Len(top) \in Nat
    BY <1>1
  <2>2. QED
    BY <1>0, <1>1, <2>1
<1>3. IsFiniteSet(relevant) /\ c \in Nat
  <2>1. IsFiniteSet(relevant)
    BY SyncAssumption, FS_Subset
  <2>2. QED
    BY <2>1, FS_CardinalityType
<1>4. Dcg(retrieved, relevant) = Gain(top, relevant)
  BY DEF Dcg, top
<1>5. /\ Dcg(retrieved, relevant) \in Nat
      /\ Dcg(retrieved, relevant) > 0 <=> \E i \in 1..Len(top) : top[i] \in relevant
  BY <1>1, <1>2, <1>4, GainSeesHits
<1>6. FoundAtK(retrieved, relevant) > 0 <=> \E i \in 1..Len(top) : top[i] \in relevant
  <2>1. ToSet(top) \cap relevant \in SUBSET relevant
    OBVIOUS
  <2>2. IsFiniteSet(ToSet(top) \cap relevant)
    BY <1>3, <2>1, FS_Subset
  <2>3. /\ Cardinality(ToSet(top) \cap relevant) \in Nat
        /\ Cardinality(ToSet(top) \cap relevant) = 0 <=> ToSet(top) \cap relevant = {}
    BY <2>2, FS_CardinalityType, FS_EmptySet
  <2>4. ToSet(top) \cap relevant # {} <=> \E i \in 1..Len(top) : top[i] \in relevant
    BY <1>2 DEF ToSet
  <2>5. FoundAtK(retrieved, relevant) = Cardinality(ToSet(top) \cap relevant)
    BY DEF FoundAtK, top
  <2>6. QED
    BY <2>3, <2>4, <2>5
<1>7. FirstRelevant(retrieved, relevant) \in 1..EvalK <=>
        \E i \in 1..Len(top) : top[i] \in relevant
  <2> DEFINE first == FirstRelevant(retrieved, relevant)
  <2>1. \/ /\ \A i \in 1..Len(retrieved) : retrieved[i] \notin relevant
           /\ first = 0
        \/ /\ first \in 1..Len(retrieved) /\ retrieved[first] \in relevant
           /\ \A i \in 1..Len(retrieved) : retrieved[i] \in relevant => first <= i
    BY FirstRelevantFacts
  <2> HIDE DEF first
  <2>2. ASSUME first \in 1..EvalK PROVE \E i \in 1..Len(top) : top[i] \in relevant
    <3>1. first \in 1..Len(retrieved) /\ retrieved[first] \in relevant
      BY <2>1, <2>2
    <3>2. first \in 1..Len(top)
      BY <1>0, <1>1, <2>2, <3>1
    <3>3. QED
      BY <1>1, <3>1, <3>2
  <2>3. ASSUME NEW i \in 1..Len(top), top[i] \in relevant PROVE first \in 1..EvalK
    <3>1. i \in 1..Len(retrieved) /\ retrieved[i] \in relevant /\ i <= EvalK
      BY <1>0, <1>1, <1>2, <2>3
    <3>2. first \in 1..Len(retrieved) /\ first <= i
      BY <2>1, <3>1
    <3>3. QED
      BY <1>0, <3>1, <3>2
  <2>4. QED
    BY <2>2, <2>3 DEF first
<1>8. ASSUME ~Repeats(retrieved)
      PROVE  /\ Dcg(retrieved, relevant) <= IdealDcg(relevant)
             /\ Dcg(retrieved, relevant) = IdealDcg(relevant) <=>
                  \/ relevant \subseteq ToSet(CutTo(Cardinality(relevant), retrieved))
                  \/ /\ Len(retrieved) >= EvalK
                     /\ ToSet(CutTo(EvalK, retrieved)) \subseteq relevant
  <2>1. IsInjective(retrieved) /\ IsInjective(top)
    <3>1. IsInjective(retrieved)
      BY <1>8 DEF Repeats
    <3>2. \A i \in 1..Len(top) : i \in 1..Len(retrieved)
      BY <1>0, <1>2
    <3>3. \A i, j \in 1..Len(top) : top[i] = top[j] => i = j
      BY <1>0, <1>1, <3>1, <3>2 DEF IsInjective
    <3>4. QED
      BY <1>2, <3>1, <3>3 DEF IsInjective
  <2>2. m \in Nat /\ m <= EvalK /\ IdealDcg(relevant) = TotalOf(CutTo(m, Discount))
    BY <1>0, <1>3 DEF IdealDcg
  <2>3. Cardinality(Hit(top, relevant, Len(top))) <= m
    <3>1. Cardinality(Hit(top, relevant, Len(top))) <= c
      BY <1>1, <2>1, NumberFound
    <3>2. Cardinality(Hit(top, relevant, Len(top))) \in 0..Len(top)
      BY <1>2, HitFacts
    <3> HIDE DEF c
    <3>3. QED
      BY <1>0, <1>2, <1>3, <3>1, <3>2
  <2> HIDE DEF m
  <2>4. /\ Gain(top, relevant) <= TotalOf(CutTo(m, Discount))
        /\ Gain(top, relevant) = TotalOf(CutTo(m, Discount)) <=>
             m <= Len(top) /\ \A i \in 1..m : top[i] \in relevant
    BY <1>1, <1>2, <2>2, <2>3, GainBound
  <2>5. relevant \subseteq ToSet(CutTo(c, retrieved)) <=>
          c <= Len(retrieved) /\ \A i \in 1..c : retrieved[i] \in relevant
    BY <2>1, TopIsAllRelevant
  <2>6. ToSet(top) \subseteq relevant <=> \A i \in 1..Len(top) : top[i] \in relevant
    BY <1>2 DEF ToSet
  <2> DEFINE Best == m <= Len(top) /\ \A i \in 1..m : top[i] \in relevant
             All  == c <= Len(retrieved) /\ \A i \in 1..c : retrieved[i] \in relevant
             Full == Len(retrieved) >= EvalK /\ \A i \in 1..Len(top) : top[i] \in relevant
  <2>7. Best => All \/ Full
    <3>1. ASSUME Best, c < EvalK PROVE All
      <4>1. m = c
        BY <3>1 DEF m
      <4>2. c <= Len(retrieved) /\ \A i \in 1..c : i \in 1..Len(top)
        BY <1>0, <1>2, <1>3, <3>1, <4>1
      <4>3. QED
        BY <1>1, <3>1, <4>1, <4>2
    <3>2. ASSUME Best, ~(c < EvalK) PROVE Full
      <4>1. m = EvalK
        BY <3>2 DEF m
      <4>2. Len(top) = EvalK /\ Len(retrieved) >= EvalK
        <5>1. Len(top) \in Nat /\ EvalK \in Nat /\ EvalK <= Len(top) /\ Len(top) <= EvalK
          BY <1>0, <1>2, <3>2, <4>1
        <5>2. Len(top) = EvalK
          BY <5>1
        <5>3. QED
          BY <1>2, <5>2
      <4>3. QED
        BY <3>2, <4>1, <4>2
    <3>3. QED
      BY <3>1, <3>2
  <2>8. All => Best
    <3> SUFFICES ASSUME All PROVE Best
      OBVIOUS
    <3>1. m \in Nat /\ m <= c /\ m <= EvalK
      BY <1>0, <1>3 DEF m
    <3> HIDE DEF c
    <3>2. m <= Len(top)
      BY <1>0, <1>1, <1>3, <3>1
    <3>3. \A i \in 1..m : i \in 1..Len(top) /\ i \in 1..c
      BY <1>2, <1>3, <3>1, <3>2
    <3>4. QED
      BY <1>1, <3>2, <3>3
  <2>9. Full => Best
    <3> SUFFICES ASSUME Full PROVE Best
      OBVIOUS
    <3>1. Len(top) = EvalK
      <4>1. Len(retrieved) \in Nat /\ EvalK \in Nat /\ ~(Len(retrieved) < EvalK)
        BY <1>0
      <4>2. QED
        BY <1>1, <4>1
    <3>2. m <= EvalK /\ m \in Nat
      BY <2>2
    <3>3. QED
      BY <1>0, <3>1, <3>2
  <2>10. /\ relevant \subseteq ToSet(CutTo(Cardinality(relevant), retrieved)) <=> All
         /\ ToSet(CutTo(EvalK, retrieved)) \subseteq relevant <=>
              \A i \in 1..Len(top) : top[i] \in relevant
    BY <2>5, <2>6 DEF top
  <2>11. Dcg(retrieved, relevant) <= IdealDcg(relevant)
         /\ (Dcg(retrieved, relevant) = IdealDcg(relevant) <=> Best)
    BY <1>4, <2>2, <2>4
  <2> HIDE DEF Best, All
  <2>12. QED
    BY <2>7, <2>8, <2>9, <2>10, <2>11
<1>9. QED
  BY <1>5, <1>6, <1>7, <1>8

(* What run_evaluation scores are lists of documents. *)
LEMMA ArmsAreLists == ASSUME HalvesTyped, NEW retrieved \in Arms PROVE retrieved \in Seq(Documents)
<1>1. /\ half["dense"].chunks \in Seq(Documents) /\ half["lexical"].chunks \in Seq(Documents)
      /\ Lists = <<half["dense"].chunks, half["lexical"].chunks>>
  BY FoundFacts DEF Found
<1>2. Fused(Lists) \in Seq(Documents)
  BY <1>1, FusedIsSorted
<1>3. Candidates \in Nat
  BY SearchAssumption
<1>4. CutTo(Candidates, Fused(Lists)) \in Seq(Documents)
  BY <1>2, <1>3, CutFacts
<1>5. QED
  BY <1>1, <1>4 DEF Arms

(* recall_at_k, reciprocal_rank and ndcg_at_k of a query, for every ranking *)
(* the search can produce, every set of relevant chunks, every k and every  *)
(* strictly decreasing discount: they agree on whether something relevant   *)
(* is among the first k, and nDCG is at most 1 and reaches it exactly for   *)
(* the rankings that put what is relevant first.                            *)
THEOREM MetricsAlwaysAgree == Spec => []MetricsAgree
<1> DEFINE Inv == SyncTypeOK /\ HalvesTyped
<1>1. Inv => MetricsAgree
  BY ArmsAreLists, MetricsOfQuery DEF MetricsAgree
<1>2. Spec => []Inv
  BY HalvesHold
<1>3. QED
  BY <1>1, <1>2, PTL
=============================================================================
