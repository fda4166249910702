----------------------------- MODULE QueuePosition -----------------------------
(***************************************************************************)
(* position() of app/queue/db_queue.py next to everything else that        *)
(* happens to the table of DbJobQueue.                                     *)
(*                                                                         *)
(* The method is two SELECTs, in SQLite without the process's lock: the    *)
(* first finds the oldest row of the photo, the second counts the pending  *)
(* rows up to it.  A first SELECT that finds no row, or a processing one,  *)
(* is the whole answer; the calls modelled here go on to the second.  (In  *)
(* PostgreSQL the lock is held, and only siblings come in between.)        *)
(***************************************************************************)
EXTENDS DbJobQueue, Integers, FiniteSetsExt

VARIABLES
    found,      \* found[p]: the row that the first SELECT of a call in p found
    truths      \* truths[p]: what was the right answer at some moment since
                \*   (history, read by no action)

pvars == <<qvars, found, truths>>

None == -1

PInit ==
    /\ Init
    /\ found = [p \in Procs |-> NoId]
    /\ truths = [p \in Procs |-> {}]

AheadOf(i) == Cardinality({k \in Pending : k < i})

\* The second SELECT: pending rows up to row i.
UpTo(i) == Cardinality({k \in Pending : k <= i})

\* The position of a photo, taken at one moment: its 1-based rank.
Position(j) ==
    LET rows == {i \in Live : job[i] = j}
    IN  IF rows = {} THEN None
        ELSE IF Min(rows) \in Processing THEN 0
        ELSE 1 + Cardinality({k \in Pending : k < Min(rows)})

Look(p, j) ==
    /\ p \in up /\ found[p] = NoId
    /\ Position(j) \notin {None, 0}
    /\ found' = [found EXCEPT ![p] = Min({i \in Live : job[i] = j})]
    /\ truths' = [truths EXCEPT ![p] = {Position(j)}]
    /\ UNCHANGED qvars

Answer(p) ==
    /\ found[p] # NoId
    /\ found' = [found EXCEPT ![p] = NoId]
    /\ truths' = [truths EXCEPT ![p] = {}]
    /\ UNCHANGED qvars

\* A step of the queue; a process that exits takes its call along.
QueueStep ==
    /\ Next
    /\ found' = [p \in Procs |-> IF p \in up' THEN found[p] ELSE NoId]
    /\ truths' = [p \in Procs |-> IF found'[p] = NoId THEN {}
                                  ELSE truths[p] \cup {Position(job[found[p]])'}]

PNext == QueueStep \/ \E p \in Procs : Answer(p) \/ \E j \in Jobs : Look(p, j)

PSpec == PInit /\ [][PNext]_pvars

-------------------------------------------------------------------------------

\* "1-based rank of photo_id in the pending queue. Returns 0 if the job is
\* currently being processed" (base.py, position): whatever is inserted,
\* taken, completed or purged between the two SELECTs, the count answered is
\* the photo's position at some moment of the call.  Only a photo whose job
\* a purge deleted meanwhile is reported as being processed.
PositionWasTrue ==
    \A p \in Procs : found[p] # NoId =>
        UpTo(found[p]) \in truths[p] \cup (IF found[p] \in purged THEN {0} ELSE {})

-------------------------------------------------------------------------------
(* What the property rests on *)

\* A row i that a call has found: nothing older is pending unless i is; while
\* i is pending it is the photo's oldest row and its rank is right now; when
\* it was taken, 0 was right, and otherwise it was purged.
RankInv(p, i) ==
    /\ p \in up /\ i < nextId
    /\ \A k \in Pending : k < i => i \in Pending
    /\ i \in Pending =>
          /\ \A k \in Live : job[k] = job[i] => i <= k
          /\ UpTo(i) \in truths[p]
    /\ i \notin Pending => i \in purged \/ 0 \in truths[p]

PositionInv ==
    /\ found \in [Procs -> Ids \cup {NoId}] /\ DOMAIN truths = Procs
    /\ \A p \in Procs : found[p] # NoId => RankInv(p, found[p])
===============================================================================
