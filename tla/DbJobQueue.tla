------------------------------ MODULE DbJobQueue ------------------------------
(***************************************************************************)
(* The job_queue table of app/queue/db_queue.py, in SQLite and in          *)
(* PostgreSQL, shared by the processes that `uvicorn --workers` starts.    *)
(*                                                                         *)
(* One action is one critical section of the code: the body of a *_sync    *)
(* method under the process's own RLock.  The lock does not reach across   *)
(* processes, so enqueue, which has no transaction around its SELECT       *)
(* COUNT and its INSERT, is two actions with the lock held in between.     *)
(* dequeue and enqueue_if_idle run in an exclusive transaction; complete,  *)
(* purge and the recovery of _init_table are one statement each.           *)
(*                                                                         *)
(* Who calls complete, and when, is the callers' business: QueueWorkers    *)
(* adds the worker loop.                                                   *)
(***************************************************************************)
EXTENDS Naturals, FiniteSets

CONSTANTS
    Procs,        \* service processes
    Workers,      \* worker tasks
    Home,         \* Home[w]: the process whose event loop runs worker w
    Jobs,         \* what a row asks for: (job_type, photo_id, payload)
    NoJob,        \* "no request holds the lock"
    MaxSize,      \* settings.queue_max_size
    MaxId,        \* bound: rows ever inserted
    SkipLocked    \* TRUE: SELECT ... FOR UPDATE SKIP LOCKED (PostgreSQL)

Ids  == 1..MaxId
NoId == 0

ASSUME QueueAssumption ==
    /\ IsFiniteSet(Procs)
    /\ Home \in [Workers -> Procs]
    /\ NoJob \notin Jobs
    /\ MaxSize \in Nat
    /\ MaxId \in Nat
    /\ SkipLocked \in BOOLEAN

VARIABLES
    status,       \* status[i]: the status column, "absent" without a row
    job,          \* job[i]: what row i asked for, NoJob before it exists
    nextId,       \* the AUTOINCREMENT / SERIAL counter
    up,           \* the processes that are running
    admitted,     \* admitted[p]: the request of p that passed the count
                  \*   check and, holding p's lock, has yet to insert
    claim,        \* claim[w]: the job dequeue returned to w, until w is done
    \* History, read by no action:
    purged,       \* ids deleted by purge
    redelivered,  \* ids put back to pending by a start
    stolen,       \* ids put back while a live worker was handling them
    solo          \* ids inserted by enqueue_if_idle

table   == <<status, job, nextId>>
history == <<purged, redelivered, stolen, solo>>
qvars   == <<status, job, nextId, up, admitted, claim, purged, redelivered,
             stolen, solo>>

Rows(s)    == {i \in Ids : status[i] = s}
Pending    == Rows("pending")
Processing == Rows("processing")
Live       == Pending \cup Processing

Init ==
    /\ status = [i \in Ids |-> "absent"]
    /\ job = [i \in Ids |-> NoJob]
    /\ nextId = 1
    /\ up = {}
    /\ admitted = [p \in Procs |-> NoJob]
    /\ claim = [w \in Workers |-> NoId]
    /\ purged = {} /\ redelivered = {} /\ stolen = {} /\ solo = {}

\* Nobody in process p holds self._lock.
LockFree(p) == p \in up /\ admitted[p] = NoJob

-------------------------------------------------------------------------------
(* enqueue *)

HasRoomOffByOne == MaxSize = 0 \/ Cardinality(Pending) <= MaxSize

\* The request is not turned away with 429.
HasRoom == MaxSize = 0 \/ Cardinality(Pending) < MaxSize

EnqueueCheck(p, j) ==
    /\ LockFree(p)
    /\ nextId \in Ids
    /\ HasRoom
    /\ admitted' = [admitted EXCEPT ![p] = j]
    /\ UNCHANGED <<table, up, claim, history>>

\* INTEGER PRIMARY KEY without AUTOINCREMENT: one more than the highest row.
InsertReusingIds(j) ==
    LET id == 1 + CHOOSE m \in Ids \cup {0} :
                    m \notin Ids \ Live /\ \A k \in Live : k <= m
    IN  /\ id \in Ids
        /\ status' = [status EXCEPT ![id] = "pending"]
        /\ job' = [job EXCEPT ![id] = j]
        /\ nextId' = id + 1

Insert(j) ==
    /\ nextId \in Ids
    /\ status' = [status EXCEPT ![nextId] = "pending"]
    /\ job' = [job EXCEPT ![nextId] = j]
    /\ nextId' = nextId + 1

EnqueueInsert(p) ==
    /\ admitted[p] # NoJob
    /\ Insert(admitted[p])
    /\ admitted' = [admitted EXCEPT ![p] = NoJob]
    /\ UNCHANGED <<up, claim, history>>

\* The INSERT raised; `with self._lock` lets go and the request ends in 500.
EnqueueRaise(p) ==
    /\ admitted[p] # NoJob
    /\ admitted' = [admitted EXCEPT ![p] = NoJob]
    /\ UNCHANGED <<table, up, claim, history>>

IdlePendingOnly == Pending = {}

\* SELECT COUNT(*) counts rows of either status.
Idle == Live = {}

EnqueueIfIdle(p, j) ==
    /\ LockFree(p)
    /\ Idle
    /\ Insert(j)
    /\ solo' = solo \cup {nextId}
    /\ UNCHANGED <<up, admitted, claim, purged, redelivered, stolen>>

-------------------------------------------------------------------------------
(* dequeue and complete *)

\* The row the SELECT picks: the oldest pending one.  With SKIP LOCKED the
\* rows other processes are just taking are passed over, one for each.
Selectable(i) ==
    LET older == {k \in Pending : k < i}
    IN  IF SkipLocked THEN Cardinality(older) < Cardinality(up)
                      ELSE older = {}

MarkNothing(i) == UNCHANGED status

MarkProcessing(i) == status' = [status EXCEPT ![i] = "processing"]

Dequeue(w) ==
    /\ LockFree(Home[w])
    /\ claim[w] = NoId
    /\ \E i \in Pending :
          /\ Selectable(i)
          /\ MarkProcessing(i)
          /\ claim' = [claim EXCEPT ![w] = i]
    /\ UNCHANGED <<job, nextId, up, admitted, history>>

\* DELETE ... WHERE id = ?, whatever has become of the row meanwhile.
Complete(w) ==
    /\ LockFree(Home[w])
    /\ claim[w] # NoId
    /\ status' = [status EXCEPT ![claim[w]] = "absent"]
    /\ claim' = [claim EXCEPT ![w] = NoId]
    /\ UNCHANGED <<job, nextId, up, admitted, history>>

\* complete() raised or was cancelled before it ran, or the worker was
\* cancelled while its dequeue was committing: the row stays "processing"
\* and nobody is left to delete it.
Forget(w) ==
    /\ claim[w] # NoId
    /\ claim' = [claim EXCEPT ![w] = NoId]
    /\ UNCHANGED <<table, up, admitted, history>>

-------------------------------------------------------------------------------
(* purge, start and exit *)

PurgeEverything(p) ==
    /\ LockFree(p)
    /\ purged' = purged \cup Live
    /\ status' = [i \in Ids |-> "absent"]
    /\ UNCHANGED <<job, nextId, up, admitted, claim, redelivered, stolen, solo>>

Purge(p) ==
    /\ LockFree(p)
    /\ purged' = purged \cup Pending
    /\ status' = [i \in Ids |-> IF i \in Pending THEN "absent" ELSE status[i]]
    /\ UNCHANGED <<job, nextId, up, admitted, claim, redelivered, stolen, solo>>

StartDiscardingProcessing(p) ==
    /\ p \notin up
    /\ up' = up \cup {p}
    /\ status' = [i \in Ids |-> IF i \in Processing THEN "absent" ELSE status[i]]
    /\ UNCHANGED <<job, nextId, admitted, claim, history>>

StartWithoutRecovery(p) ==
    /\ p \notin up
    /\ up' = up \cup {p}
    /\ UNCHANGED <<table, admitted, claim, history>>

\* _init_table: every row that is "processing" goes back to pending, those
\* a sibling process is handling at this moment too.
Start(p) ==
    /\ p \notin up
    /\ up' = up \cup {p}
    /\ status' = [i \in Ids |-> IF i \in Processing THEN "pending" ELSE status[i]]
    /\ redelivered' = redelivered \cup Processing
    /\ stolen' = stolen \cup {i \in Processing : \E w \in Workers : claim[w] = i}
    /\ UNCHANGED <<job, nextId, admitted, claim, purged, solo>>

\* The process dies.  A transaction it had open is rolled back.
Exit(p) ==
    /\ p \in up
    /\ up' = up \ {p}
    /\ admitted' = [admitted EXCEPT ![p] = NoJob]
    /\ claim' = [w \in Workers |-> IF Home[w] = p THEN NoId ELSE claim[w]]
    /\ UNCHANGED <<table, history>>

-------------------------------------------------------------------------------

ProcNext(p) ==
    \/ \E j \in Jobs : EnqueueCheck(p, j) \/ EnqueueIfIdle(p, j)
    \/ EnqueueInsert(p) \/ EnqueueRaise(p)
    \/ Purge(p) \/ Start(p) \/ Exit(p)

WorkerNext(w) == Dequeue(w) \/ Complete(w) \/ Forget(w)

Next == (\E p \in Procs : ProcNext(p)) \/ (\E w \in Workers : WorkerNext(w))

Spec == Init /\ [][Next]_qvars

-------------------------------------------------------------------------------
(* Properties *)

\* The types of the variables; the counter is ahead of every row in the table.
TypeOK ==
    /\ status \in [Ids -> {"absent", "pending", "processing"}]
    /\ job \in [Ids -> Jobs \cup {NoJob}]
    /\ nextId \in 1..(MaxId + 1)
    /\ up \subseteq Procs
    /\ admitted \in [Procs -> Jobs \cup {NoJob}]
    /\ claim \in [Workers -> Ids \cup {NoId}]
    /\ purged \subseteq Ids /\ redelivered \subseteq Ids
    /\ stolen \subseteq Ids /\ solo \subseteq Ids
    /\ \A i \in Live : i < nextId

\* "Pop the next pending job and mark it as processing" (base.py): two
\* workers never hold the same job, unless a starting process took it from
\* the first of them.
ExclusiveClaim ==
    \A v, w \in Workers :
        v # w /\ claim[v] = claim[w] /\ claim[v] # NoId => claim[v] \in stolen

\* "In-flight jobs are not affected" (base.py, purge): the row of a job that
\* a worker is handling is there, marked processing, and no purge has
\* deleted it - unless a starting process took the job from the worker.
InFlightShielded ==
    \A w \in Workers : claim[w] # NoId /\ claim[w] \notin stolen =>
        status[claim[w]] = "processing" /\ claim[w] \notin purged

\* The limit is checked before the insert, and each process checks for
\* itself: requests can exceed it by one for every process but the first.
\* Jobs that a restart returned to pending are not counted.
OvershootBound ==
    MaxSize > 0 =>
        Cardinality(Pending \ redelivered)
            + Cardinality({p \in Procs : admitted[p] # NoJob})
          <= MaxSize + Cardinality(Procs) - 1

\* enqueue_if_idle promises an empty queue: as long as its row is in the
\* table there is no older one, so at most one such row at a time and no
\* clustering overlaps the detection it was meant to wait for.
SoloIsOldest ==
    \A i \in solo \cap Live : \A k \in Live : i <= k

-------------------------------------------------------------------------------
(* What the properties rest on *)

\* Ids are never handed out twice and only a running process holds a job: a
\* deleted, claimed or solo row is behind the counter, a purged one is gone.
LedgerInv ==
    /\ \A i \in purged : status[i] = "absent" /\ i < nextId
    /\ \A i \in solo : i < nextId
    /\ \A w \in Workers : claim[w] # NoId => claim[w] < nextId /\ Home[w] \in up

QueueInv ==
    TypeOK /\ LedgerInv /\ ExclusiveClaim /\ InFlightShielded /\ SoloIsOldest

\* With one process nothing is stolen, and what was admitted still fits.
SoleInv ==
    /\ stolen = {}
    /\ \A p \in Procs : admitted[p] # NoJob => p \in up /\ HasRoom

-------------------------------------------------------------------------------
(* The contract of base.py *)

Abs(i) ==
    IF status[i] = "pending" THEN "pending"
    ELSE IF status[i] = "processing" THEN "inflight"
    ELSE IF i \in purged THEN "purged"
    ELSE IF i < nextId THEN "done" ELSE "new"

JQ == INSTANCE JobQueue WITH Capacity <- MaxSize, life <- [i \in Ids |-> Abs(i)]

\* With one process the table is the queue that base.py describes: first in
\* first out, never above its limit at an insertion, each job completed once
\* or purged, retried only after a crash.
Contract == JQ!Spec

-------------------------------------------------------------------------------
(* What the documentation says: true of one process, not of several *)

\* "Maximum number of pending jobs in the queue. Requests that would exceed
\* this limit are rejected with 429" (config.py, queue_max_size); jobs that
\* a restart returned to pending were not requested again.
AdmittedWithinLimit ==
    MaxSize > 0 => Cardinality(Pending \ redelivered) <= MaxSize

\* "Delete all pending jobs. In-flight jobs are not affected" (base.py).
PurgeSparesInFlight == \A w \in Workers : claim[w] \notin purged

\* "Recover jobs that were processing when the service last crashed"
\* (db_queue.py): only such jobs, so a job never has two handlers at once.
OneHandlerPerJob ==
    \A v, w \in Workers : v # w /\ claim[v] # NoId => claim[v] # claim[w]
===============================================================================
