----------------------------- MODULE QueueWorkers -----------------------------
(***************************************************************************)
(* The worker tasks of app/queue/worker.py around the queue of DbJobQueue, *)
(* and the processes they live in (the lifespan of app/main.py): requests  *)
(* put jobs in, workers take them out, run their handler and complete      *)
(* them; a process may crash, or stop and cancel its workers.              *)
(*                                                                         *)
(* Of a detection job only this matters here: whether it left new faces in *)
(* the store, and whether a clustering has since taken them into account.  *)
(* The handlers themselves are the business of Detection.                  *)
(***************************************************************************)
EXTENDS DbJobQueue

CONSTANTS
    DetectJobs,     \* jobs of type "detect"
    ClusterJob,     \* the job of type "cluster"
    AutoDispatch,   \* settings.auto_dispatch_dbscan
    MaxRequests,    \* bound: rows that requests may insert
    Budget          \* bound: how many mishaps of each kind may happen

Mishaps == {"crash", "stop", "fault", "purge"}

ASSUME WorkerAssumption ==
    /\ ClusterJob \notin DetectJobs
    /\ Jobs = DetectJobs \cup {ClusterJob}
    /\ AutoDispatch \in BOOLEAN
    /\ MaxRequests \in Nat
    /\ Budget \in [Mishaps -> Nat]

VARIABLES
    pc,         \* pc[w]: where in run_worker task w is
    stopping,   \* processes whose lifespan has cancelled its workers
    left,       \* left[m]: mishaps that may still happen
    dirty,      \* detection jobs with faces no clustering has covered
    seen,       \* seen[w]: dirty when the clustering job of w read the store
    \* History, read by no action:
    finished,   \* ids whose handler ran to its end, in success or failure
    aborted,    \* ids whose handler was cancelled
    escaped     \* workers whose cancellation a raising complete() replaced

faces == <<dirty, seen>>
ends  == <<finished, aborted, escaped>>
wvars == <<qvars, pc, stopping, left, dirty, seen, finished, aborted, escaped>>

\* Handlers that are running; what a cancelled await turns into.  A thread
\* that the event loop no longer waits for may still do its work.
Handling == {"run", "clustering"}
Cancelled ==
    [poll |-> "lastPoll", run |-> "drain", clustering |-> "drain",
     complete |-> "lastComplete", dispatch |-> "lastDispatch"]
Looping == Handling \cup {"poll", "complete", "dispatch"}
Holding == Handling \cup {"complete", "drain", "lastComplete", "dropped"}
Places == Looping \cup Holding \cup {"off", "lastPoll", "lastDispatch", "left"}

WInit ==
    /\ Init
    /\ pc = [w \in Workers |-> "off"]
    /\ stopping = {}
    /\ left = Budget
    /\ dirty = {}
    /\ seen = [w \in Workers |-> {}]
    /\ finished = {} /\ aborted = {} /\ escaped = {}

Goto(w, l) == pc' = [pc EXCEPT ![w] = l]

Spend(m) == left[m] > 0 /\ left' = [left EXCEPT ![m] = @ - 1]

\* The workers of process p.
Staff(p) == {w \in Workers : Home[w] = p}

-------------------------------------------------------------------------------
(* Requests: POST /detect, POST /cluster and DELETE /queue *)

Request(p) ==
    /\ p \notin stopping /\ nextId <= MaxRequests
    /\ \E j \in Jobs : EnqueueCheck(p, j)
    /\ UNCHANGED <<pc, stopping, left, faces, ends>>

RequestEnds(p) ==
    /\ \/ EnqueueInsert(p) /\ UNCHANGED left
       \/ EnqueueRaise(p) /\ Spend("fault")
    /\ UNCHANGED <<pc, stopping, faces, ends>>

PurgeQueue(p) ==
    /\ p \notin stopping
    /\ Purge(p)
    /\ Spend("purge")
    /\ UNCHANGED <<pc, stopping, faces, ends>>

-------------------------------------------------------------------------------
(* The worker loop *)

Fetch(w) ==
    /\ pc[w] = "poll"
    /\ Dequeue(w)
    /\ Goto(w, "run")
    /\ UNCHANGED <<stopping, left, faces, ends>>

\* dequeue returned None: sleep, and look again.
Sleep(w) == pc[w] = "poll" /\ LockFree(Home[w]) /\ Pending = {} /\ UNCHANGED wvars

\* _run_detection_job reports its own failures and returns.  It has stored
\* faces or not: a failure may come after the first of them.
DetectEnds(w) ==
    /\ pc[w] = "run" /\ job[claim[w]] \in DetectJobs
    /\ dirty' \in {dirty, dirty \cup {claim[w]}}
    /\ finished' = finished \cup {claim[w]}
    /\ Goto(w, "complete")
    /\ UNCHANGED <<qvars, stopping, left, seen, aborted, escaped>>

\* _run_clustering_job reads all embeddings ...
ClusterReads(w) ==
    /\ pc[w] = "run" /\ job[claim[w]] = ClusterJob
    /\ seen' = [seen EXCEPT ![w] = dirty]
    /\ Goto(w, "clustering")
    /\ UNCHANGED <<qvars, stopping, left, dirty, ends>>

\* ... and, much later, has posted labels for those - or has failed.
ClusterEnds(w) ==
    /\ pc[w] = "clustering"
    /\ \/ dirty' = dirty \ seen[w] /\ UNCHANGED left
       \/ Spend("fault") /\ UNCHANGED dirty
    /\ finished' = finished \cup {claim[w]}
    /\ Goto(w, "complete")
    /\ UNCHANGED <<qvars, stopping, seen, aborted, escaped>>

Finish(w) ==
    /\ pc[w] = "complete"
    /\ Complete(w)
    /\ Goto(w, IF AutoDispatch /\ job[claim[w]] \in DetectJobs THEN "dispatch" ELSE "poll")
    /\ UNCHANGED <<stopping, left, faces, ends>>

\* complete() raised.  `except Exception` logs it and the loop goes on: there
\* is no dispatch and, raised while a cancellation was on its way through the
\* `finally`, the exception takes the place of the CancelledError.
FinishRaises(w) ==
    /\ pc[w] \in {"complete", "drain"}
    /\ Forget(w)
    /\ Spend("fault")
    /\ Goto(w, "poll")
    /\ escaped' = IF pc[w] = "drain" THEN escaped \cup {w} ELSE escaped
    /\ UNCHANGED <<stopping, faces, finished, aborted>>

\* _maybe_dispatch_clustering.
Dispatch(w) ==
    /\ \/ /\ pc[w] = "dispatch" /\ Goto(w, "poll")
       \/ /\ pc[w] = "lastDispatch" /\ Goto(w, "left")
    /\ EnqueueIfIdle(Home[w], ClusterJob)
    /\ UNCHANGED <<stopping, left, faces, ends>>

DispatchNothing(w) ==
    /\ pc[w] = "dispatch"
    /\ \/ LockFree(Home[w]) /\ ~Idle /\ UNCHANGED left
       \/ Spend("fault")
    /\ Goto(w, "poll")
    /\ UNCHANGED <<qvars, stopping, faces, ends>>

-------------------------------------------------------------------------------
(* Cancelled workers *)

\* `finally: await queue.complete(job.id)`, for a job that was cancelled or
\* whose completion was.
FinishCancelled(w) ==
    /\ pc[w] \in {"drain", "lastComplete"}
    /\ Complete(w)
    /\ Goto(w, "left")
    /\ UNCHANGED <<stopping, left, faces, ends>>

\* The thread of a cancelled dequeue commits; nobody takes its result.
FetchNobodyWaitsFor(w) ==
    /\ pc[w] = "lastPoll"
    /\ Dequeue(w)
    /\ Goto(w, "dropped")
    /\ UNCHANGED <<stopping, left, faces, ends>>

\* The thread's result is dropped, or its call was cancelled before it ran.
Drop(w) ==
    /\ pc[w] \in {"dropped", "lastComplete"}
    /\ Forget(w)
    /\ Goto(w, "left")
    /\ UNCHANGED <<stopping, left, faces, ends>>

LeaveForTheLoop(w) ==
    /\ pc[w] \in {"lastPoll", "lastDispatch"}
    /\ Goto(w, "poll")
    /\ UNCHANGED <<qvars, stopping, left, faces, ends>>

Leave(w) ==
    /\ pc[w] \in {"lastPoll", "lastDispatch"}
    /\ Goto(w, "left")
    /\ UNCHANGED <<qvars, stopping, left, faces, ends>>

-------------------------------------------------------------------------------
(* Processes *)

\* The lifespan opens the queue and starts its workers.
StartUp(p) ==
    /\ Start(p)
    /\ pc' = [w \in Workers |-> IF Home[w] = p THEN "poll" ELSE pc[w]]
    /\ UNCHANGED <<stopping, left, faces, ends>>

\* Shutdown: the server has no request left; every worker is cancelled
\* wherever it is waiting.
Stop(p) ==
    /\ p \in up \ stopping /\ admitted[p] = NoJob
    /\ Spend("stop")
    /\ stopping' = stopping \cup {p}
    /\ pc' = [w \in Workers |-> IF w \in Staff(p) THEN Cancelled[pc[w]] ELSE pc[w]]
    /\ aborted' = aborted \cup {claim[w] : w \in {v \in Staff(p) : pc[v] \in Handling}}
    /\ UNCHANGED <<qvars, faces, finished, escaped>>

GoneWithoutWorkers(p) ==
    /\ Exit(p)
    /\ stopping' = stopping \ {p}
    /\ UNCHANGED <<pc, faces, ends>>

Gone(p) ==
    /\ Exit(p)
    /\ pc' = [w \in Workers |-> IF Home[w] = p THEN "off" ELSE pc[w]]
    /\ stopping' = stopping \ {p}
    /\ escaped' = escaped \ Staff(p)
    /\ UNCHANGED <<faces, finished, aborted>>

\* gather() has seen the last worker leave.
StopEnds(p) ==
    /\ p \in stopping
    /\ \A w \in Staff(p) : pc[w] = "left"
    /\ Gone(p)
    /\ UNCHANGED left

Crash(p) == Gone(p) /\ Spend("crash")

-------------------------------------------------------------------------------

ProcStep(p) ==
    \/ Request(p) \/ RequestEnds(p) \/ PurgeQueue(p)
    \/ StartUp(p) \/ Stop(p) \/ StopEnds(p) \/ Crash(p)

\* What a worker does when nothing goes wrong.
Work(w) ==
    \/ Fetch(w) \/ Sleep(w) \/ DetectEnds(w) \/ ClusterReads(w) \/ ClusterEnds(w)
    \/ Finish(w) \/ Dispatch(w) \/ DispatchNothing(w)
    \/ FinishCancelled(w) \/ FetchNobodyWaitsFor(w) \/ Drop(w) \/ Leave(w)

WNext ==
    \/ \E p \in Procs : ProcStep(p)
    \/ \E w \in Workers : Work(w) \/ FinishRaises(w)

WSpec == WInit /\ [][WNext]_wvars

\* Handlers end: detection is a finite computation and every HTTP call has a
\* timeout.  The statement in progress ends, the supervisor restarts a
\* process that is down, and a process whose workers have left exits.
\* Requests, purges and mishaps are not promised.
Fairness ==
    /\ \A w \in Workers : WF_wvars(Work(w))
    /\ \A p \in Procs :
          /\ WF_wvars(RequestEnds(p)) /\ WF_wvars(StartUp(p)) /\ WF_wvars(StopEnds(p))

FairSpec == WSpec /\ Fairness

-------------------------------------------------------------------------------
(* Properties *)

\* Types, which places of the loop hold a job, and that only the workers of
\* a stopping process are anywhere but in the loop.
WTypeOK ==
    /\ TypeOK
    /\ pc \in [Workers -> Places]
    /\ stopping \subseteq up
    /\ left \in [Mishaps -> Nat]
    /\ dirty \subseteq Ids /\ seen \in [Workers -> SUBSET Ids]
    /\ finished \subseteq Ids /\ aborted \subseteq Ids /\ escaped \subseteq Workers
    /\ \A w \in Workers :
          /\ claim[w] # NoId <=> pc[w] \in Holding
          /\ Home[w] \notin up <=> pc[w] = "off"
          /\ Home[w] \in up \ stopping => pc[w] \in Looping

\* A completed job was handled to the end, an interrupted one was cancelled.
EndsInv ==
    \A w \in Workers :
        /\ pc[w] \in {"complete", "lastComplete"} => claim[w] \in finished
        /\ pc[w] = "drain" => claim[w] \in aborted

\* A job that was accepted and whose row is gone was handled to its end,
\* purged, or cancelled in the middle by a shutdown: crashes, restarts,
\* siblings that handle it too and completions that fail lose nothing.
LostOnlyByStop ==
    \A i \in Ids : i < nextId /\ status[i] = "absent" =>
        i \in finished \cup purged \cup aborted

\* "Remove a job after it has been processed (success or failure)" (base.py,
\* complete): a job that is gone was handled to its end or purged.
NothingLost ==
    \A i \in Ids : i < nextId /\ status[i] = "absent" => i \in finished \cup purged

\* A job that was handled to its end is handled again only if a start put it
\* back to pending: a retry is the price of a crash and of nothing else.
HandledAgainOnlyAfterRecovery ==
    \A w \in Workers :
        pc[w] \in Handling /\ claim[w] \in finished => claim[w] \in redelivered

\* run_worker runs "until cancelled" (worker.py): a worker of a process that
\* is stopping is back in its loop, where no second cancellation will reach
\* it and the stop waits for ever, if and only if its own complete() raised
\* while the cancellation was on its way through the `finally`.
LoopsInStopOnlyIfEscaped ==
    {w \in Workers : Home[w] \in stopping /\ pc[w] \in Looping} = escaped

\* "Automatically dispatch a DBSCAN clustering job after the last detection
\* job in the queue completes" (config.py): once the queue is empty and the
\* workers are waiting, every stored face has been through a clustering.
ClusteredWhenQuiet ==
    Live = {} /\ (\A w \in Workers : pc[w] = "poll") => dirty = {}

\* Every job in the table leaves it, whatever process dies in between.
EveryJobLeaves == \A i \in Ids : status[i] # "absent" ~> status[i] = "absent"

\* "Continuously dequeue and process jobs until cancelled" (worker.py): a
\* process that is told to stop does stop.
StopsWhenTold == \A p \in Procs : p \in stopping ~> p \notin stopping
===============================================================================
