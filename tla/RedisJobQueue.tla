----------------------------- MODULE RedisJobQueue -----------------------------
(***************************************************************************)
(* The Redis queue of app/queue/redis_queue.py, shared by several service  *)
(* processes with one worker task each.                                    *)
(*                                                                         *)
(* The client is synchronous: within a process a method runs to its end,   *)
(* but each of its commands is a round trip, with the commands of other    *)
(* processes in between; only the script of enqueue_if_idle is one step.   *)
(* A process may die between two commands, a command may raise, and when   *)
(* the reply is lost the client library sends the command again.           *)
(*                                                                         *)
(* Nothing at a start looks at queue:inflight, so there is no recovery.    *)
(***************************************************************************)
EXTENDS Naturals, Sequences, FiniteSets, SequencesExt

CONSTANTS
    Procs,      \* service processes
    MaxSize,    \* settings.queue_max_size
    MaxId,      \* bound: ids drawn from queue:counter
    Mishaps     \* bound: crashes, commands that raise and lost replies

Ids  == 1..MaxId
NoId == 0

ASSUME RedisAssumption ==
    IsFiniteSet(Procs) /\ MaxSize \in Nat /\ MaxId \in Nat /\ Mishaps \in Nat

VARIABLES
    jobs,       \* queue:jobs, the list of pending ids
    inflight,   \* the keys of queue:inflight
    counter,    \* queue:counter
    up,         \* processes that are running
    call,       \* call[p]: how far the method that p is in has come
    hand,       \* hand[p]: the id that method has drawn or popped
    claim,      \* claim[p]: the job that dequeue returned to p's worker
    left,       \* mishaps that may still happen
    asked,      \* the job a position() call did not find in queue:inflight
    carried,    \* it was in the hand of some method during that call (history)
    \* History, read by no action:
    done,       \* completed ids
    purged,     \* ids that purge deleted
    dropped,    \* ids popped, or drawn and never pushed, when a call ended
    stranded,   \* ids in queue:inflight whose worker is gone
    resent,     \* ids that were pushed twice
    solo,       \* ids pushed by enqueue_if_idle
    hidden      \* ids that were in some call's hand when it did

redis   == <<jobs, inflight, counter>>
procs   == <<up, call, hand, claim>>
fates   == <<done, purged, dropped, stranded>>
rhist   == <<fates, resent, solo, hidden>>
rvars   == <<redis, procs, left, rhist, asked, carried>>

Pending == ToSet(jobs)

RInit ==
    /\ jobs = <<>> /\ inflight = {} /\ counter = 0
    /\ up = Procs
    /\ call = [p \in Procs |-> "none"]
    /\ hand = [p \in Procs |-> NoId]
    /\ claim = [p \in Procs |-> NoId]
    /\ left = Mishaps
    /\ asked = NoId /\ carried = FALSE
    /\ done = {} /\ purged = {} /\ dropped = {} /\ stranded = {}
    /\ resent = {} /\ solo = {} /\ hidden = {}

Suffer == left > 0 /\ left' = left - 1

\* p is between two methods, or in the middle of one.
Ready(p) == p \in up /\ call[p] = "none"
At(p, s) == call[p] = s

\* The ids that calls have drawn or popped.
Hands == {hand[p] : p \in Procs} \ {NoId}

To(p, s, i) == call' = [call EXCEPT ![p] = s] /\ hand' = [hand EXCEPT ![p] = i]

-------------------------------------------------------------------------------
(* enqueue *)

HasRoomOffByOne == MaxSize = 0 \/ Len(jobs) <= MaxSize
HasRoom         == MaxSize = 0 \/ Len(jobs) < MaxSize

\* LLEN.
Count(p) ==
    /\ Ready(p)
    /\ HasRoom
    /\ To(p, "counted", NoId)
    /\ UNCHANGED <<redis, up, claim, left, rhist>>

\* INCR; sent again, it skips an id.
Number(p) ==
    /\ At(p, "counted") /\ counter < MaxId
    /\ counter' = counter + 1
    /\ \/ To(p, "numbered", counter') /\ UNCHANGED <<left, dropped>>
       \/ Suffer /\ dropped' = dropped \cup {counter'} /\ UNCHANGED <<call, hand>>
    /\ UNCHANGED <<jobs, inflight, up, claim, done, purged, stranded, resent, solo, hidden>>

\* RPUSH; sent again, it puts the job into the list twice.
Push(p) ==
    /\ At(p, "numbered")
    /\ jobs' = Append(jobs, hand[p])
    /\ \/ To(p, "none", NoId) /\ UNCHANGED <<left, resent>>
       \/ Suffer /\ resent' = resent \cup {hand[p]} /\ UNCHANGED <<call, hand>>
    /\ UNCHANGED <<inflight, counter, up, claim, fates, solo, hidden>>

IdlePendingOnly == jobs = <<>>

\* The Lua script sees the list and the hash in one step.
Idle == jobs = <<>> /\ inflight = {}

EnqueueIfIdle(p) ==
    /\ Ready(p) /\ Idle /\ counter < MaxId
    /\ counter' = counter + 1
    /\ jobs' = Append(jobs, counter')
    /\ solo' = solo \cup {counter'}
    /\ hidden' = hidden \cup Hands
    /\ UNCHANGED <<inflight, procs, left, fates, resent>>

-------------------------------------------------------------------------------
(* dequeue and complete *)

PopPeeking(p) ==
    /\ Ready(p) /\ claim[p] = NoId /\ jobs # <<>>
    /\ To(p, "popped", Head(jobs))
    /\ UNCHANGED <<redis, up, claim, left, rhist>>

\* LPOP; sent again, it pops the next job and the first one is gone.
Pop(p) ==
    /\ Ready(p) /\ claim[p] = NoId /\ jobs # <<>>
    /\ jobs' = Tail(jobs)
    /\ \/ To(p, "popped", Head(jobs)) /\ UNCHANGED <<left, dropped>>
       \/ Suffer /\ dropped' = dropped \cup {Head(jobs)} /\ UNCHANGED <<call, hand>>
    /\ UNCHANGED <<inflight, counter, up, claim, done, purged, stranded, resent, solo, hidden>>

\* HSET; dequeue returns the job.
Track(p) ==
    /\ At(p, "popped")
    /\ inflight' = inflight \cup {hand[p]}
    /\ claim' = [claim EXCEPT ![p] = hand[p]]
    /\ To(p, "none", NoId)
    /\ UNCHANGED <<jobs, counter, up, left, rhist>>

CompleteAll(p) ==
    /\ Ready(p) /\ claim[p] # NoId
    /\ inflight' = {}
    /\ done' = done \cup {claim[p]}
    /\ claim' = [claim EXCEPT ![p] = NoId]
    /\ UNCHANGED <<jobs, counter, up, call, hand, left, purged, dropped, stranded,
                   resent, solo, hidden>>

\* HDEL.
Complete(p) ==
    /\ Ready(p) /\ claim[p] # NoId
    /\ inflight' = inflight \ {claim[p]}
    /\ done' = done \cup {claim[p]}
    /\ claim' = [claim EXCEPT ![p] = NoId]
    /\ UNCHANGED <<jobs, counter, up, call, hand, left, purged, dropped, stranded,
                   resent, solo, hidden>>

\* HDEL raised: the worker logs it and goes on.
CompleteRaises(p) ==
    /\ Ready(p) /\ claim[p] # NoId
    /\ Suffer
    /\ stranded' = stranded \cup {claim[p]}
    /\ claim' = [claim EXCEPT ![p] = NoId]
    /\ UNCHANGED <<redis, up, call, hand, done, purged, dropped, resent, solo, hidden>>

-------------------------------------------------------------------------------
(* position *)

LookPast(p, i) ==
    /\ Ready(p) /\ asked = NoId
    /\ To(p, "looking", NoId)
    /\ asked' = i
    /\ UNCHANGED <<redis, up, claim, left, rhist>>

\* HVALS; a job that is in the hash is answered with 0 at once.
Look(p, i) ==
    /\ Ready(p) /\ asked = NoId /\ i \notin inflight
    /\ To(p, "looking", NoId)
    /\ asked' = i
    /\ UNCHANGED <<redis, up, claim, left, rhist>>

\* LRANGE: the rank in the list, or None.
Answer(p) ==
    /\ At(p, "looking")
    /\ To(p, "none", NoId)
    /\ UNCHANGED <<redis, up, claim, left, rhist>>

-------------------------------------------------------------------------------
(* purge, errors and crashes *)

\* DEL queue:jobs.
Purge(p) ==
    /\ Ready(p) /\ jobs # <<>>
    /\ purged' = purged \cup Pending
    /\ jobs' = <<>>
    /\ UNCHANGED <<inflight, counter, procs, left, done, dropped, stranded, resent, solo, hidden>>

\* The call ends where it is; what it has in its hand is in no key of Redis.
Raise(p) ==
    /\ p \in up /\ call[p] # "none"
    /\ Suffer
    /\ To(p, "none", NoId)
    /\ dropped' = dropped \cup ({hand[p]} \ {NoId})
    /\ UNCHANGED <<redis, up, claim, done, purged, stranded, resent, solo, hidden>>

Crash(p) ==
    /\ p \in up
    /\ Suffer
    /\ up' = up \ {p}
    /\ To(p, "none", NoId)
    /\ claim' = [claim EXCEPT ![p] = NoId]
    /\ dropped' = dropped \cup ({hand[p]} \ {NoId})
    /\ stranded' = stranded \cup ({claim[p]} \ {NoId})
    /\ UNCHANGED <<redis, done, purged, resent, solo, hidden>>

Start(p) ==
    /\ p \notin up
    /\ up' = up \cup {p}
    /\ UNCHANGED <<redis, call, hand, claim, left, rhist>>

-------------------------------------------------------------------------------

Method(p) ==
    \/ Count(p) \/ Number(p) \/ Push(p) \/ EnqueueIfIdle(p)
    \/ Pop(p) \/ Track(p) \/ Complete(p) \/ CompleteRaises(p)
    \/ Answer(p) \/ Purge(p) \/ Raise(p) \/ Crash(p) \/ Start(p)

RNext ==
    /\ \E p \in Procs :
          \/ \E i \in 1..counter : Look(p, i)
          \/ /\ Method(p)
             /\ asked' = IF \E q \in Procs : call'[q] = "looking" THEN asked ELSE NoId
    /\ carried' = (asked' # NoId /\ (carried \/ \E q \in Procs : hand'[q] = asked'))

RSpec == RInit /\ [][RNext]_rvars

-------------------------------------------------------------------------------
(* Properties *)

\* Where id i is: places in the list, calls' hands, workers, and its end.
Where(i) ==
    {<<"list", k>> : k \in {n \in DOMAIN jobs : jobs[n] = i}}
      \cup {<<"hand", p>> : p \in {q \in Procs : hand[q] = i}}
      \cup {<<"worker", p>> : p \in {q \in Procs : claim[q] = i}}
      \cup {<<"done", n>> : n \in {i} \cap done}
      \cup {<<"purged", n>> : n \in {i} \cap purged}
      \cup {<<"dropped", n>> : n \in {i} \cap dropped}
      \cup {<<"stranded", n>> : n \in {i} \cap stranded}

\* Redis knows as in flight exactly the jobs that workers handle and those
\* whose worker is gone: nothing else is "processing" in a position() answer
\* or keeps enqueue_if_idle from its turn.
InFlightIsKnown ==
    /\ \A p \in Procs : claim[p] \in inflight \cup resent \cup {NoId}
    /\ inflight \subseteq {claim[p] : p \in Procs} \cup stranded \cup resent

\* Types; a call has an id in its hand from INCR or LPOP on; the hash has the
\* jobs it should have.
RTypeOK ==
    /\ InFlightIsKnown
    /\ jobs \in Seq(Ids) /\ inflight \subseteq Ids /\ counter \in 0..MaxId
    /\ up \subseteq Procs
    /\ call \in [Procs -> {"none", "counted", "numbered", "popped", "looking"}]
    /\ hand \in [Procs -> 0..counter] /\ claim \in [Procs -> 0..counter]
    /\ left \in 0..Mishaps
    /\ asked \in 0..counter /\ carried \in BOOLEAN
    /\ asked # NoId <=> \E p \in Procs : call[p] = "looking"
    /\ \A p \in Procs :
          /\ hand[p] # NoId <=> call[p] \in {"numbered", "popped"}
          /\ p \notin up => call[p] = "none" /\ claim[p] = NoId

\* "Pop the next pending job and mark it as processing" (base.py): a job is
\* in one place at a time and is never handled again after its end, unless
\* its push was sent twice.
OnePlaceUnlessResent ==
    \A i \in 1..counter \ resent : Cardinality(Where(i)) = 1

\* Processes that found room and have yet to push their job.
Entering == {p \in Procs : call[p] \in {"counted", "numbered"} /\ hand[p] \notin resent}

\* LLEN, INCR and RPUSH are apart: each process but the first may exceed the
\* limit by one job, and by those that were pushed twice.
OvershootByOneEach ==
    MaxSize > 0 =>
        Cardinality(Pending \ resent) + Cardinality(Entering) <= MaxSize + Cardinality(Procs) - 1

\* "Atomically enqueue a job only if the queue has no pending or in-flight
\* jobs" (base.py): an older job next to one that enqueue_if_idle pushed was
\* between two commands at that moment, in neither the list nor the hash.
SoloSeesAllButCalls ==
    \A i \in solo \cap (Pending \cup inflight) :
        \A k \in Pending \cup inflight : k < i => k \in hidden

\* "Returns None if the photo_id is not present (absent = done)" (base.py,
\* position): a job that is in neither reading is done, purged or lost, or
\* some method had it in its hand during the call - which may mean that it
\* is being processed.
NotFoundOnlyIfGone ==
    asked # NoId /\ asked \notin Pending =>
        asked \in done \cup purged \cup dropped \/ carried

-------------------------------------------------------------------------------
(* What the properties rest on *)

Claims == {claim[p] : p \in Procs} \ {NoId}
Ended  == done \cup purged \cup dropped \cup stranded

\* No id is in use before it was drawn; only an idle worker pops.
BehindInv ==
    /\ Pending \cup inflight \cup Ended \cup resent \cup solo \cup hidden \subseteq 1..counter
    /\ \A p \in Procs : call[p] = "popped" => claim[p] = NoId

\* But for ids that were pushed twice: no two places in the list, no two
\* calls and no two workers have the same id ...
NoDoubles ==
    /\ \A k, n \in DOMAIN jobs : jobs[k] = jobs[n] /\ jobs[k] \notin resent => k = n
    /\ \A p, q \in Procs :
          /\ hand[p] = hand[q] /\ hand[p] \notin resent \cup {NoId} => p = q
          /\ claim[p] = claim[q] /\ claim[p] \notin resent \cup {NoId} => p = q

\* ... and none has one that is somewhere else, or at its end.
Apart ==
    /\ Pending \cap (Hands \cup Claims \cup Ended) \subseteq resent
    /\ Hands \cap (Claims \cup Ended) \subseteq resent
    /\ Claims \cap Ended \subseteq resent
    /\ done \cap (purged \cup dropped \cup stranded) \subseteq resent
    /\ purged \cap (dropped \cup stranded) \subseteq resent
    /\ dropped \cap stranded \subseteq resent

\* Every id is somewhere; Redis or a method knows it until it is gone.
Accounted ==
    /\ 1..counter \subseteq resent \cup Pending \cup Hands \cup Claims \cup Ended
    /\ 1..counter \subseteq Pending \cup Hands \cup inflight \cup done \cup purged \cup dropped

\* enqueue_if_idle overlooked only what was in a hand.
SoloInv ==
    \A i \in solo : \A k \in Pending \cup inflight \cup Hands : k < i => k \in hidden

RedisInv ==
    /\ RTypeOK /\ BehindInv /\ NoDoubles /\ Apart /\ Accounted
    /\ SoloInv /\ OvershootByOneEach /\ NotFoundOnlyIfGone
===============================================================================
