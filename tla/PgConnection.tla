---------------------------- MODULE PgConnection ----------------------------
(***************************************************************************)
(* The one PostgreSQL connection every process keeps to a table: that of   *)
(* PgVectorEmbeddingStore to face_embeddings (pgvector_store.py) or that   *)
(* of PgJobQueue to job_queue (db_queue.py).  A method is the sequence of  *)
(* the table locks its statements take, and then of the rows that they     *)
(* lock one by one, in whatever order the server finds them; the RLock     *)
(* lets one method at a time use the connection.  Transactions are what is *)
(* modelled: which methods commit, which roll back, which leave the        *)
(* transaction open behind them, and what the siblings wait for meanwhile. *)
(* What is in the rows is the business of EmbeddingStore and DbJobQueue.   *)
(***************************************************************************)
EXTENDS Sequences, Naturals, FiniteSets, Functions

CONSTANTS
    Procs,
    Rows      \* rows of the table that more than one method is after

ASSUME RowsAssumption == IsFiniteSet(Rows)

VARIABLES
    table,    \* which of the two connections is followed
    method,   \* what runs on the connection of a process
    todo,     \* the table locks its remaining statements ask for
    rows,     \* the rows they have still to lock
    held,     \* the table locks of the open transaction
    locked,   \* the rows it has locked
    aborted   \* the transaction failed and nobody rolled it back

work  == <<method, todo, rows>>
locks == <<held, locked>>
vars  == <<table, work, locks, aborted>>

Modes == {"AccessShare", "RowShare", "RowExclusive", "Share", "Exclusive", "AccessExclusive"}

(* PostgreSQL's table-level locks: the modes each mode conflicts with.     *)
Conflicts == [AccessShare     |-> {"AccessExclusive"},
              RowShare        |-> {"Exclusive", "AccessExclusive"},
              RowExclusive    |-> {"Share", "Exclusive", "AccessExclusive"},
              Share           |-> {"RowExclusive", "Exclusive", "AccessExclusive"},
              Exclusive       |-> Modes \ {"AccessShare"},
              AccessExclusive |-> Modes]

(* The methods by the statements they run.  _init_db creates an index and  *)
(* alters the table, _init_table creates an index and recovers the jobs;   *)
(* "count" is the store.count() main.py logs before it serves; "read" is a *)
(* method of one SELECT; "change" changes one row (add, delete, complete), *)
(* "bulk" those that a condition or a list selects (delete_many,           *)
(* sync_batch, purge_absent; purge); "solo" is enqueue_if_idle, which      *)
(* locks the table itself.                                                 *)
EnqueueLockingTheTable == <<"Share", "AccessShare", "RowExclusive">>
EnqueueScript == <<"AccessShare", "RowExclusive">>

SoloWithoutLock == <<"AccessShare", "RowExclusive">>
SoloScript == <<"Exclusive", "AccessShare", "RowExclusive">>

StoreScript == [start |-> <<"Share", "AccessExclusive">>,
                count |-> <<"AccessShare">>,
                read  |-> <<"AccessShare">>,
                change |-> <<"RowExclusive">>,
                bulk  |-> <<"RowExclusive">>]
QueueScript == [start   |-> <<"Share", "RowExclusive">>,
                read    |-> <<"AccessShare">>,
                change  |-> <<"RowExclusive">>,
                bulk    |-> <<"RowExclusive">>,
                enqueue |-> EnqueueScript,
                dequeue |-> <<"RowShare", "RowExclusive">>,
                solo    |-> SoloScript]

StoreMethods == DOMAIN StoreScript
QueueMethods == DOMAIN QueueScript
Script(m) == IF table = "face_embeddings" THEN StoreScript[m] ELSE QueueScript[m]
Served == IF table = "face_embeddings" THEN {"read", "change", "bulk"}
          ELSE QueueMethods \ {"start"}

Starting(p) == method[p] \in {"start", "count"}
(* The rows that a method goes for.  Which ones, and in which order, is up *)
(* to the data and to the plan; a row that has to be inserted is in nobody *)
(* else's way.  The recovery of a start needs none: with its Share lock no *)
(* sibling changes a row any more, and the rows are not those that a       *)
(* dequeue holds.                                                          *)
Orders == {s \in UNION {[1..n -> Rows] : n \in 0..Cardinality(Rows)} : IsInjective(s)}
RowsOf(m) == IF m = "bulk" THEN Orders
             ELSE IF m = "change" THEN {s \in Orders : Len(s) <= 1} ELSE {<<>>}

LeavesChangesOpen(m) == m \in {"read", "count", "change", "bulk"}
LeavesOpen(m) == m \in {"read", "count"}

RollsBack(m) == m \in {"dequeue", "solo"}

(***************************************************************************)
(* Who waits for whom.                                                     *)
(***************************************************************************)
Waiting(p) == method[p] \notin {"down", "idle"} /\ (todo[p] # <<>> \/ rows[p] # <<>>)

NeedsTable(p, q) == todo[p] # <<>> /\ Conflicts[Head(todo[p])] \cap held[q] # {}
NeedsRow(p, q) == todo[p] = <<>> /\ rows[p] # <<>> /\ Head(rows[p]) \in locked[q]
BlockedBy(p, q) == p # q /\ Waiting(p) /\ (NeedsTable(p, q) \/ NeedsRow(p, q))
Granted(p) == Waiting(p) /\ \A q \in Procs : ~BlockedBy(p, q)

Stuck(D) == D # {} /\ \A p \in D : \E q \in D : BlockedBy(p, q)
(* A cycle of the waits-for graph: nothing smaller in it is stuck.         *)
Cycle(D) == Stuck(D) /\ \A E \in SUBSET D : Stuck(E) => E = D
-----------------------------------------------------------------------------
Init == /\ table \in {"face_embeddings", "job_queue"}
        /\ method = [p \in Procs |-> "down"]
        /\ todo = [p \in Procs |-> <<>>]
        /\ rows = [p \in Procs |-> <<>>]
        /\ held = [p \in Procs |-> {}]
        /\ locked = [p \in Procs |-> {}]
        /\ aborted = [p \in Procs |-> FALSE]

Run(p, m) == /\ method' = [method EXCEPT ![p] = m]
             /\ todo' = [todo EXCEPT ![p] = Script(m)]
             /\ \E s \in RowsOf(m) : rows' = [rows EXCEPT ![p] = s]

Stop(p, m) == /\ method' = [method EXCEPT ![p] = m]
              /\ todo' = [todo EXCEPT ![p] = <<>>]
              /\ rows' = [rows EXCEPT ![p] = <<>>]

Release(p) == /\ held' = [held EXCEPT ![p] = {}]
              /\ locked' = [locked EXCEPT ![p] = {}]

(* create_store() or create_queue() connects and initialises the table.    *)
Start(p) == /\ method[p] = "down"
            /\ Run(p, "start")
            /\ UNCHANGED <<table, locks, aborted>>

(* A method takes the RLock.  On an aborted transaction its first          *)
(* statement raises and changes nothing; see Poll for those that catch it. *)
Call(p) == /\ method[p] = "idle" /\ ~aborted[p]
           /\ \E m \in Served : Run(p, m)
           /\ UNCHANGED <<table, locks, aborted>>

(* FOR UPDATE SKIP LOCKED: a pending row that no sibling has locked.       *)
Unlocked == Rows \ UNION {locked[q] : q \in Procs}
PickUnlocked(p) == \E r \in Rows : /\ rows' = [rows EXCEPT ![p] = <<r>>]
                                   /\ UNCHANGED locked
Pick(p) == \E r \in Unlocked : /\ rows' = [rows EXCEPT ![p] = <<r>>]
                               /\ locked' = [locked EXCEPT ![p] = @ \cup {r}]

(* The server grants the table lock of the next statement.                 *)
Execute(p) == /\ Granted(p) /\ todo[p] # <<>>
              /\ held' = [held EXCEPT ![p] = @ \cup {Head(todo[p])}]
              /\ todo' = [todo EXCEPT ![p] = Tail(@)]
              /\ IF Head(todo[p]) = "RowShare" THEN Pick(p) ELSE UNCHANGED <<rows, locked>>
              /\ UNCHANGED <<table, method, aborted>>

(* The statement comes to the next row that it changes.                    *)
LockRow(p) == /\ Granted(p) /\ todo[p] = <<>>
              /\ locked' = [locked EXCEPT ![p] = @ \cup {Head(rows[p])}]
              /\ rows' = [rows EXCEPT ![p] = Tail(@)]
              /\ UNCHANGED <<table, method, todo, held, aborted>>

(* The method ends: a change commits, a SELECT just returns its rows.      *)
Finish(p) == /\ method[p] \notin {"down", "idle"} /\ ~Waiting(p)
             /\ IF LeavesOpen(method[p]) THEN UNCHANGED locks ELSE Release(p)
             /\ IF method[p] = "start" /\ table = "face_embeddings"
                THEN Run(p, "count") ELSE Stop(p, "idle")
             /\ UNCHANGED <<table, aborted>>

(* enqueue() finds the queue full and returns inside its transaction.      *)
TurnAway(p) == /\ method[p] = "enqueue" /\ Len(todo[p]) = 1
               /\ Stop(p, "idle")
               /\ UNCHANGED <<table, locks, aborted>>

(* dequeue() finds nothing pending, enqueue_if_idle() finds a job.         *)
FoundNothing(p) == method[p] = "dequeue" /\ Len(todo[p]) = 2 /\ Granted(p)
FoundJob(p)     == method[p] = "solo" /\ Len(todo[p]) = 1
RollBack(p) == /\ RollsBack(method[p]) /\ (FoundNothing(p) \/ FoundJob(p))
               /\ Release(p)
               /\ Stop(p, "idle")
               /\ UNCHANGED <<table, aborted>>

(* A statement raises: the server drops the locks.  A start ends the       *)
(* process; two methods roll back; the others leave an aborted transaction.*)
Raise(p) == /\ Waiting(p)
            /\ Release(p)
            /\ Stop(p, IF Starting(p) THEN "down" ELSE "idle")
            /\ aborted' = [aborted EXCEPT ![p] = ~Starting(p) /\ ~RollsBack(method[p])]
            /\ UNCHANGED table

(* The server's deadlock detector makes a statement of a cycle raise.      *)
BreakDeadlock(D) == Cycle(D) /\ \E p \in D : Raise(p)

(* A dequeue() (or enqueue_if_idle()) on the aborted transaction: it       *)
(* raises, and its except clause rolls back.  The worker logs and goes on. *)
(* Nothing of the kind gets the embedding store out of it.                 *)
Poll(p) == /\ method[p] = "idle" /\ aborted[p]
           /\ \E m \in Served : RollsBack(m)
           /\ aborted' = [aborted EXCEPT ![p] = FALSE]
           /\ UNCHANGED <<table, work, locks>>

(* The connection breaks; a method in progress raises.  _get_conn opens    *)
(* another one for the next method.                                        *)
HangUp(p) == /\ method[p] # "down"
             /\ Release(p)
             /\ Stop(p, IF Starting(p) THEN "down" ELSE "idle")
             /\ aborted' = [aborted EXCEPT ![p] = FALSE]
             /\ UNCHANGED table

(* The process ends, at any moment.                                        *)
Exit(p) == /\ method[p] # "down"
           /\ Release(p)
           /\ Stop(p, "down")
           /\ aborted' = [aborted EXCEPT ![p] = FALSE]
           /\ UNCHANGED table

Next == \/ \E p \in Procs :
             \/ Start(p) \/ Call(p) \/ Execute(p) \/ LockRow(p) \/ Finish(p) \/ TurnAway(p)
             \/ RollBack(p) \/ Raise(p) \/ Poll(p) \/ HangUp(p) \/ Exit(p)
        \/ \E D \in SUBSET Procs : BreakDeadlock(D)

(* Methods run to their end.  Lock requests queue, so that a statement     *)
(* which waits for ever waits for one sibling, not for a stream of them.   *)
(* The last to join a cycle looks for it after deadlock_timeout.           *)
NoOvertaking == \A p \in Procs :
    []<>~Waiting(p) \/ \E q \in Procs : <>[]BlockedBy(p, q)

Fairness == /\ \A p \in Procs :
                 /\ WF_vars(Execute(p) \/ LockRow(p) \/ RollBack(p))
                 /\ WF_vars(Finish(p))
            /\ \A D \in SUBSET Procs : WF_vars(BreakDeadlock(D))
            /\ NoOvertaking

Spec == Init /\ [][Next]_vars /\ Fairness
-----------------------------------------------------------------------------
(* Type correctness; siblings never hold conflicting locks, and between    *)
(* two calls a connection holds at most the lock of a SELECT.              *)
Locks == /\ \A p, q \in Procs, m \in Modes :
              p # q /\ m \in held[p] => held[q] \cap Conflicts[m] = {}
         /\ \A p, q \in Procs : p # q => locked[p] \cap locked[q] = {}
         /\ \A p \in Procs :
              /\ method[p] = "idle" => held[p] \subseteq {"AccessShare"} /\ locked[p] = {}
              /\ aborted[p] => held[p] = {} /\ method[p] = "idle"
PTypeOK == /\ table \in {"face_embeddings", "job_queue"}
           /\ method \in [Procs -> StoreMethods \cup QueueMethods \cup {"down", "idle"}]
           /\ todo \in [Procs -> Seq(Modes)]
           /\ rows \in [Procs -> Seq(Rows)]
           /\ held \in [Procs -> SUBSET Modes]
           /\ locked \in [Procs -> SUBSET Rows]
           /\ aborted \in [Procs -> BOOLEAN]
           /\ Locks

(* Once enqueue_if_idle has locked the table, no sibling has a change of   *)
(* job_queue under way, uncommitted: what it counts is what there is when  *)
(* its own row is committed, and DbJobQueue may take it as one step.       *)
SoloCountsAlone ==
    \A p \in Procs : method[p] = "solo" /\ Len(todo[p]) <= 2 =>
        \A q \in Procs \ {p} : "RowExclusive" \notin held[q]

(* FOR UPDATE SKIP LOCKED: two siblings never go for the same job, so that *)
(* DbJobQueue may take dequeue as one step.                                *)
DequeuesApart ==
    \A p, q \in Procs : p # q /\ {method[p], method[q]} = {"dequeue"} =>
        Range(rows[p]) \cap (Range(rows[q]) \cup locked[q]) = {}

(* Deadlocks are of two kinds.  Some are around a start: a process that    *)
(* serves is only caught in those on face_embeddings, and only because a   *)
(* SELECT it did earlier left its transaction open.  The others are among  *)
(* methods that change many rows and meet them in different orders; a      *)
(* method that changes one row (a detection that stores a face, a worker   *)
(* that completes its job) is never caught in those.                       *)
AroundAStart(D) ==
    /\ \E p \in D : method[p] = "start"
    /\ \A p \in D : method[p] # "start" =>
          table = "face_embeddings" /\ "AccessShare" \in held[p]
AmongBulks(D) == \A p \in D : method[p] = "bulk" /\ locked[p] # {}

DeadlockOnlyByStartOrBulk ==
    \A D \in SUBSET Procs : Cycle(D) => AroundAStart(D) \/ AmongBulks(D)

(* A start comes to an end, unless it waits for ever, on face_embeddings,  *)
(* for a transaction a sibling's SELECT left open, or siblings end and     *)
(* start again for ever.                                                   *)
StartEnds == \A p \in Procs :
    \/ []<>(method[p] # "start")
    \/ <>[](/\ method[p] = "start" /\ table = "face_embeddings"
            /\ \E q \in Procs \ {p} : "AccessShare" \in held[q])
    \/ \E q \in Procs \ {p} : []<>(method[q] = "down") /\ []<>(method[q] # "down")
=============================================================================
