--------------------------- MODULE KnowledgeSync ---------------------------
(* The scheduled re-indexing of the zoning documents.                       *)
(*                                                                          *)
(* Celery Beat delivers worker.sync_knowledge_base every few hours; a Redis *)
(* lock (SET NX EX, compare-and-delete) is meant to keep two runs apart.    *)
(* A run lists the Azure container, reads every PDF, replaces the Postgres  *)
(* table document_chunks in one transaction, and only then uploads the same *)
(* chunks to Pinecone, which gives every upload new ids.  The script can    *)
(* also be started by hand, and then takes no lock.                         *)
(*                                                                          *)
(* A document stands for all its chunks.  A row of the table is a pair of   *)
(* the run that wrote it and the document; the transactions run at READ     *)
(* COMMITTED, where a DELETE takes the rows it can see when it starts.      *)
EXTENDS Naturals, FiniteSets

CONSTANTS
    Scheduled,   \* workers that run the Celery task
    ByHand,      \* operators that run the script directly
    NoSync,      \* nobody holds the lock
    Documents,   \* the PDFs that may be in the container
    MaxCopies,   \* bound: copies of a document counted in Pinecone
    MaxChanges,  \* bound: changes to the container
    MaxFaults    \* bound: crashes and failures outside Pinecone

ASSUME SyncAssumption ==
    /\ Scheduled \cap ByHand = {}
    /\ NoSync \notin Scheduled \cup ByHand
    /\ IsFiniteSet(Scheduled \cup ByHand) /\ IsFiniteSet(Documents)
    /\ MaxCopies \in Nat \ {0} /\ MaxChanges \in Nat /\ MaxFaults \in Nat

Syncs == Scheduled \cup ByHand

VARIABLES
    azure,       \* the documents in the container
    lexical,     \* the committed rows of document_chunks
    dense,       \* copies of each document in the Pinecone index
    lock,        \* the value of lock:sync_knowledge_base
    pc,          \* what each run is about to do
    scan,        \* the documents each run listed
    doomed,      \* the rows an open transaction has deleted
    lapsed,      \* running syncs whose lock key has expired under them
    contended,   \* open transactions that overlapped another one
    last,        \* the last committed replacement: whose, of what, alone?
    changes, faults

syncVars == <<azure, lexical, dense, lock, pc, scan, doomed, lapsed,
              contended, last, changes, faults>>

Steps == {"idle", "listing", "reading", "deleting", "inserting", "uploading",
          "releasing"}

LexicalDocs == {row[2] : row \in lexical}
Running(s) == pc[s] # "idle"

SyncInit ==
    /\ azure = Documents
    /\ lexical = {}
    /\ dense = [d \in Documents |-> 0]
    /\ lock = NoSync
    /\ pc = [s \in Syncs |-> "idle"]
    /\ scan = [s \in Syncs |-> {}]
    /\ doomed = [s \in Syncs |-> {}]
    /\ lapsed = {} /\ contended = {}
    /\ last = [by |-> NoSync, docs |-> {}, alone |-> TRUE]
    /\ changes = 0 /\ faults = 0

----------------------------------------------------------------------------
(* Someone uploads a PDF to the container or removes one. *)
AzureChange ==
    /\ changes < MaxChanges
    /\ changes' = changes + 1
    /\ \E d \in Documents : azure' = IF d \in azure THEN azure \ {d} ELSE azure \cup {d}
    /\ UNCHANGED <<lexical, dense, lock, pc, scan, doomed, lapsed, contended,
                   last, faults>>

(* A delivery of the task finds the lock free.  One that finds it held     *)
(* returns "skipped" and changes nothing.                                   *)
Start(s) ==
    /\ s \in Scheduled
    /\ ~Running(s)
    /\ lock = NoSync
    /\ lock' = s
    /\ pc' = [pc EXCEPT ![s] = "listing"]
    /\ UNCHANGED <<azure, lexical, dense, scan, doomed, lapsed, contended, last,
                   changes, faults>>

(* python -m scripts.sync_knowledge_base: the same work without the lock. *)
StartByHand(s) ==
    /\ s \in ByHand
    /\ ~Running(s)
    /\ pc' = [pc EXCEPT ![s] = "listing"]
    /\ UNCHANGED <<azure, lexical, dense, lock, scan, doomed, lapsed, contended,
                   last, changes, faults>>

(* The key outlives neither its TTL nor a dead worker; a run that is slower *)
(* than the TTL goes on without it.                                         *)
LockExpires ==
    /\ lock # NoSync
    /\ lock' = NoSync
    /\ lapsed' = IF Running(lock) THEN lapsed \cup {lock} ELSE lapsed
    /\ UNCHANGED <<azure, lexical, dense, pc, scan, doomed, contended, last,
                   changes, faults>>

List(s) ==
    /\ pc[s] = "listing"
    /\ scan' = [scan EXCEPT ![s] = azure]
    /\ pc' = [pc EXCEPT ![s] = "reading"]
    /\ UNCHANGED <<azure, lexical, dense, lock, doomed, lapsed, contended, last,
                   changes, faults>>

\* Mutant of Read: a run that listed nothing gives up as if it had failed.
ReadNonempty(s) ==
    /\ pc[s] = "reading"
    /\ pc' = [pc EXCEPT ![s] = IF scan[s] # {} /\ scan[s] \subseteq azure THEN "deleting"
                              ELSE "releasing"]
    /\ UNCHANGED <<azure, lexical, dense, lock, scan, doomed, lapsed, contended,
                   last, changes, faults>>

(* Every listed PDF is downloaded and chunked; one that has been removed    *)
(* since it was listed makes the download raise, and the run gives up       *)
(* before it has touched either index.                                      *)
Read(s) ==
    /\ pc[s] = "reading"
    /\ pc' = [pc EXCEPT ![s] = IF scan[s] \subseteq azure THEN "deleting" ELSE "releasing"]
    /\ UNCHANGED <<azure, lexical, dense, lock, scan, doomed, lapsed, contended,
                   last, changes, faults>>

(* Open transactions other than s's own. *)
OpenBeside(s) == {t \in Syncs \ {s} : pc[t] = "inserting"}

(* replace_all's DELETE: the rows visible now, and none committed later. *)
Delete(s) ==
    /\ pc[s] = "deleting"
    /\ doomed' = [doomed EXCEPT ![s] = lexical]
    /\ contended' = IF OpenBeside(s) = {} THEN contended
                    ELSE contended \cup OpenBeside(s) \cup {s}
    /\ pc' = [pc EXCEPT ![s] = "inserting"]
    /\ UNCHANGED <<azure, lexical, dense, lock, scan, lapsed, last, changes, faults>>

\* Mutant of Commit: the new chunks are added to the old ones.
CommitAppends(s) ==
    /\ pc[s] = "inserting"
    /\ lexical' = lexical \cup ({s} \X scan[s])
    /\ doomed' = [doomed EXCEPT ![s] = {}]
    /\ last' = [by |-> s, docs |-> scan[s], alone |-> s \notin contended]
    /\ contended' = contended \ {s}
    /\ pc' = [pc EXCEPT ![s] = IF scan[s] = {} THEN "releasing" ELSE "uploading"]
    /\ UNCHANGED <<azure, dense, lock, scan, lapsed, changes, faults>>

(* replace_all's INSERTs and session_scope's COMMIT.  An empty scan empties *)
(* the table and skips Pinecone.                                            *)
Commit(s) ==
    /\ pc[s] = "inserting"
    /\ lexical' = (lexical \ doomed[s]) \cup ({s} \X scan[s])
    /\ doomed' = [t \in Syncs |-> IF t = s THEN {} ELSE doomed[t] \ ({s} \X Documents)]
    /\ last' = [by |-> s, docs |-> scan[s], alone |-> s \notin contended]
    /\ contended' = contended \ {s}
    /\ pc' = [pc EXCEPT ![s] = IF scan[s] = {} THEN "releasing" ELSE "uploading"]
    /\ UNCHANGED <<azure, dense, lock, scan, lapsed, changes, faults>>

(* add_documents writes every chunk under a fresh id, beside the copies of  *)
(* earlier runs.                                                            *)
WithCopies(docs) ==
    [d \in Documents |-> IF d \in docs /\ dense[d] < MaxCopies THEN dense[d] + 1
                         ELSE dense[d]]

Upload(s) ==
    /\ pc[s] = "uploading"
    /\ dense' = WithCopies(scan[s])
    /\ pc' = [pc EXCEPT ![s] = "releasing"]
    /\ UNCHANGED <<azure, lexical, lock, scan, doomed, lapsed, contended, last,
                   changes, faults>>

(* The breaker refuses the call, or Pinecone fails after some batches. *)
UploadFails(s) ==
    /\ pc[s] = "uploading"
    /\ \E part \in SUBSET scan[s] : dense' = WithCopies(part)
    /\ pc' = [pc EXCEPT ![s] = "releasing"]
    /\ UNCHANGED <<azure, lexical, lock, scan, doomed, lapsed, contended, last,
                   changes, faults>>

(* Azure, the PDF parser or Postgres raises before the commit; the          *)
(* transaction, if one is open, is rolled back.                             *)
Fails(s) ==
    /\ pc[s] \in {"listing", "reading", "deleting", "inserting"}
    /\ faults < MaxFaults
    /\ faults' = faults + 1
    /\ pc' = [pc EXCEPT ![s] = "releasing"]
    /\ doomed' = [doomed EXCEPT ![s] = {}]
    /\ contended' = contended \ {s}
    /\ UNCHANGED <<azure, lexical, dense, lock, scan, lapsed, last, changes>>

\* Mutant of Release: a plain DEL of the lock.
ReleaseUnchecked(s) ==
    /\ pc[s] = "releasing"
    /\ lock' = NoSync
    /\ pc' = [pc EXCEPT ![s] = "idle"]
    /\ scan' = [scan EXCEPT ![s] = {}]
    /\ lapsed' = lapsed \ {s}
    /\ UNCHANGED <<azure, lexical, dense, doomed, contended, last, changes, faults>>

(* The finally block: compare-and-delete, so a run whose key has expired    *)
(* leaves alone the lock of the run that took over.                         *)
Release(s) ==
    /\ pc[s] = "releasing"
    /\ lock' = IF lock = s THEN NoSync ELSE lock
    /\ pc' = [pc EXCEPT ![s] = "idle"]
    /\ scan' = [scan EXCEPT ![s] = {}]
    /\ lapsed' = lapsed \ {s}
    /\ UNCHANGED <<azure, lexical, dense, doomed, contended, last, changes, faults>>

(* The process dies: no finally block, the lock stays until its TTL, and    *)
(* Postgres rolls the open transaction back.  A release that Redis refuses  *)
(* looks the same.                                                          *)
Crash(s) ==
    /\ Running(s)
    /\ faults < MaxFaults
    /\ faults' = faults + 1
    /\ pc' = [pc EXCEPT ![s] = "idle"]
    /\ scan' = [scan EXCEPT ![s] = {}]
    /\ doomed' = [doomed EXCEPT ![s] = {}]
    /\ contended' = contended \ {s}
    /\ lapsed' = lapsed \ {s}
    /\ UNCHANGED <<azure, lexical, dense, lock, last, changes>>

Proceed(s) ==
    \/ List(s) \/ Read(s) \/ Delete(s) \/ Commit(s)
    \/ Upload(s) \/ UploadFails(s) \/ Release(s)

SyncNext ==
    \/ AzureChange
    \/ LockExpires
    \/ \E s \in Syncs : Start(s) \/ StartByHand(s) \/ Proceed(s) \/ Fails(s) \/ Crash(s)

(* Beat keeps delivering the task, a run goes on until it ends, and Redis   *)
(* expires keys.  Nothing obliges Pinecone to accept an upload, an operator *)
(* to start the script, or a fault to happen.                               *)
SyncFairness ==
    /\ WF_syncVars(LockExpires)
    /\ WF_syncVars(\E s \in Scheduled : Start(s))
    /\ \A s \in Syncs : WF_syncVars(Proceed(s))

SyncSpec == SyncInit /\ [][SyncNext]_syncVars /\ SyncFairness

----------------------------------------------------------------------------
Rows == Syncs \X Documents

(* The variables have their types. *)
SyncTypeOK ==
    /\ azure \subseteq Documents
    /\ lexical \subseteq Rows
    /\ dense \in [Documents -> 0..MaxCopies]
    /\ lock \in Scheduled \cup {NoSync}
    /\ pc \in [Syncs -> Steps]
    /\ scan \in [Syncs -> SUBSET Documents]
    /\ doomed \in [Syncs -> SUBSET Rows]
    /\ lapsed \subseteq Scheduled /\ contended \subseteq Syncs
    /\ last \in [by : Syncs \cup {NoSync}, docs : SUBSET Documents, alone : BOOLEAN]
    /\ changes \in 0..MaxChanges /\ faults \in 0..MaxFaults

(* The lock of worker.sync_knowledge_base: as long as its key has not       *)
(* expired, a running task owns it, so that of two tasks that run at once   *)
(* one has outlived its TTL; no late release frees another run's lock.      *)
RunningTaskHoldsLock ==
    \A s \in Scheduled : Running(s) /\ s \notin lapsed => lock = s

(* replace_all's promise, "this is everything currently in Azure": unless   *)
(* another replacement overlapped the last one, the table holds the scan of *)
(* the last committed run, all of it and nothing besides, at every moment   *)
(* of a run, whatever fails after it.                                       *)
TableIsTheLastScan ==
    last.alone => lexical = {last.by} \X last.docs

(* A Pinecone outage never leaves the lexical half stale (comment at        *)
(* sync_knowledge_base.py:159): once the container stops changing and the   *)
(* other faults stop, the table comes to hold exactly the container's       *)
(* documents, even if every upload fails.                                   *)
LexicalCatchesUp == <>[](LexicalDocs = azure)

(* The lock is a lease like the one of the market-data cache: a task takes  *)
(* it when it is free and gives back its own key only, whatever runs by     *)
(* hand, fails or is killed beside it; overdue are the tasks that ran on    *)
(* past their TTL.                                                          *)
Leased == INSTANCE LeasedLock WITH
    Owners  <- Scheduled,
    Nobody  <- NoSync,
    key     <- lock,
    inside  <- {s \in Scheduled : Running(s)},
    overdue <- lapsed

LeaseSpec == Leased!Spec
=============================================================================
