------------------------------- MODULE JobQueue -------------------------------
(***************************************************************************)
(* What app/queue/base.py promises of any job queue, with no tables,       *)
(* processes or locks: the life of each job.  A job is known by the id its *)
(* row will get; ids are handed out in order.  DbJobQueue implements this  *)
(* contract when one process owns the queue.                               *)
(***************************************************************************)
EXTENDS Naturals, FiniteSets

CONSTANTS
    Ids,        \* the ids that may be handed out, natural numbers
    Capacity    \* queue_max_size; 0 stands for "no limit"

VARIABLE life   \* life[i]: what has become of job i

States == {"new", "pending", "inflight", "done", "purged"}

In(s) == {i \in Ids : life[i] = s}

Oldest(i, S) == i \in S /\ \A k \in S : i <= k

Init == life = [i \in Ids |-> "new"]

\* Some jobs change state together; every other job keeps its own.
Move(S, s) == life' = [i \in Ids |-> IF i \in S THEN s ELSE life[i]]

\* enqueue returned True: there was room for the job when it went in.
Enqueue == \E i \in Ids :
    /\ Oldest(i, In("new"))
    /\ Capacity = 0 \/ Cardinality(In("pending")) < Capacity
    /\ Move({i}, "pending")

\* enqueue_if_idle returned True: nothing was pending or in flight.
EnqueueIfIdle == \E i \in Ids :
    /\ Oldest(i, In("new"))
    /\ In("pending") \cup In("inflight") = {}
    /\ Move({i}, "pending")

\* dequeue returned a job: the next one, marked as processing.
Dequeue == \E i \in Ids : Oldest(i, In("pending")) /\ Move({i}, "inflight")

\* complete: the job leaves the queue once it has been processed.
Complete == \E i \in In("inflight") : Move({i}, "done")

\* purge: all pending jobs go; in-flight jobs are not affected.
Purge == Move(In("pending"), "purged")

\* The service came back from a crash: jobs it was handling are retried.
Recover == Move(In("inflight"), "pending")

Next == Enqueue \/ EnqueueIfIdle \/ Dequeue \/ Complete \/ Purge \/ Recover

Spec == Init /\ [][Next]_life
===============================================================================
