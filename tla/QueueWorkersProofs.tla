-------------------------- MODULE QueueWorkersProofs --------------------------
(***************************************************************************)
(* The worker loop uses the queue as DbJobQueue allows, so all that is     *)
(* proved of the queue holds with the workers around it; and what becomes  *)
(* of an accepted job, for any number of processes, workers and mishaps.   *)
(***************************************************************************)
EXTENDS QueueWorkers, DbJobQueueProofs

\* What the worker loop does is, for the queue, one of its critical sections
\* or nothing at all.
LEMMA StepIsQueueStep == [WNext]_wvars => [Next]_qvars
<1> SUFFICES ASSUME [WNext]_wvars PROVE [Next]_qvars
  OBVIOUS
<1>1. ASSUME NEW p \in Procs, ProcStep(p) PROVE [Next]_qvars
  BY <1>1 DEF ProcStep, Request, RequestEnds, PurgeQueue, StartUp, Stop, StopEnds, Crash, Gone,
              Next, ProcNext
<1>2. ASSUME NEW w \in Workers, Work(w) PROVE [Next]_qvars
  <2>1. CASE Dispatch(w)
    <3>1. EnqueueIfIdle(Home[w], ClusterJob)
      BY <2>1 DEF Dispatch
    <3>2. Home[w] \in Procs /\ ClusterJob \in Jobs
      BY QueueAssumption, WorkerAssumption DEF QueueAssumption, WorkerAssumption
    <3> QED
      BY <3>1, <3>2 DEF Next, ProcNext
  <2>2. CASE Sleep(w)
    BY <2>2 DEF Sleep, wvars
  <2>3. CASE Fetch(w) \/ Finish(w) \/ FinishCancelled(w) \/ FetchNobodyWaitsFor(w) \/ Drop(w)
    BY <2>3 DEF Fetch, Finish, FinishCancelled, FetchNobodyWaitsFor, Drop, Next, WorkerNext
  <2>4. CASE DetectEnds(w) \/ ClusterReads(w) \/ ClusterEnds(w) \/ DispatchNothing(w) \/ Leave(w)
    BY <2>4 DEF DetectEnds, ClusterReads, ClusterEnds, DispatchNothing, Leave
  <2> QED
    BY <1>2, <2>1, <2>2, <2>3, <2>4 DEF Work
<1>3. ASSUME NEW w \in Workers, FinishRaises(w) PROVE [Next]_qvars
  BY <1>3 DEF FinishRaises, Next, WorkerNext
<1>4. CASE UNCHANGED wvars
  BY <1>4 DEF wvars
<1> QED
  BY <1>1, <1>2, <1>3, <1>4 DEF WNext

\* The workers and processes of worker.py and main.py drive the queue only in
\* ways that DbJobQueue describes.
THEOREM WorkersDriveQueue == WSpec => Spec
<1>1. WInit => Init
  BY DEF WInit
<1> QED
  BY <1>1, StepIsQueueStep, PTL DEF WSpec, Spec

\* Hence the queue's invariant holds with the workers around it.
THEOREM WorkersQueueInvariant == WSpec => [](QueueInv /\ OvershootBound)
  BY WorkersDriveQueue, QueueInvariant, BoundedOvershoot, PTL

-------------------------------------------------------------------------------
(* Types, and who holds a job *)

\* The initial state satisfies the typing invariant.
LEMMA InitWType == WInit => WTypeOK
  BY InitType, WorkerAssumption
     DEF WInit, Init, WTypeOK, WorkerAssumption, Places, Looping, Holding, Handling, Mishaps

\* A mishap that happens was still allowed.
LEMMA SpendType ==
  ASSUME left \in [Mishaps -> Nat], NEW m \in Mishaps, Spend(m)
  PROVE  left' \in [Mishaps -> Nat]
<1>1. left[m] \in Nat /\ left[m] - 1 \in Nat
  BY DEF Spend
<1> QED
  BY <1>1 DEF Spend

\* Every step keeps the types, and the places that hold a job.
LEMMA NextWType == WTypeOK /\ [WNext]_wvars => WTypeOK'
<1> SUFFICES ASSUME WTypeOK, [WNext]_wvars PROVE WTypeOK'
  OBVIOUS
<1>0. TypeOK /\ TypeOK'
  BY NextType, StepIsQueueStep DEF WTypeOK
<1> USE <1>0, QueueAssumption
    DEF QueueAssumption, WTypeOK, TypeOK, Places, Looping, Holding, Handling, Mishaps, faces, ends,
        Goto, Spend, NoId, Ids
<1>1. ASSUME NEW p \in Procs, Request(p) PROVE WTypeOK'
  BY <1>1 DEF Request, EnqueueCheck
<1>2. ASSUME NEW p \in Procs, RequestEnds(p) PROVE WTypeOK'
  <2>1. UNCHANGED <<claim, up, pc, stopping, dirty, seen, finished, aborted, escaped>>
    BY <1>2 DEF RequestEnds, EnqueueInsert, EnqueueRaise
  <2>2. left' \in [Mishaps -> Nat]
    BY <1>2, SpendType DEF RequestEnds
  <2> HIDE DEF TypeOK
  <2> QED
    BY <2>1, <2>2
<1>3. ASSUME NEW p \in Procs, PurgeQueue(p) PROVE WTypeOK'
  BY <1>3 DEF PurgeQueue, Purge
<1>4. ASSUME NEW p \in Procs, StartUp(p) PROVE WTypeOK'
  BY <1>4 DEF StartUp, Start
<1>5. ASSUME NEW p \in Procs, Stop(p) PROVE WTypeOK'
  <2>1. \A w \in Staff(p) : pc[w] \in Looping
    BY <1>5 DEF Stop, Staff
  <2>2. \A w \in Workers : pc'[w] = IF w \in Staff(p) THEN Cancelled[pc[w]] ELSE pc[w]
    BY <1>5 DEF Stop
  <2>3. \A w \in Staff(p) :
           /\ pc'[w] \in Places /\ pc'[w] # "off"
           /\ pc'[w] \in Holding <=> pc[w] \in Holding
    <3>1. \A l \in Looping :
             /\ Cancelled[l] \in {"lastPoll", "drain", "lastComplete", "lastDispatch"}
             /\ Cancelled[l] \in {"drain", "lastComplete"} <=> l \in Handling \cup {"complete"}
      BY DEF Cancelled
    <3>2. \A w \in Staff(p) : pc'[w] = Cancelled[pc[w]]
      BY <2>2 DEF Staff
    <3> HIDE DEF TypeOK, QueueAssumption, WTypeOK
    <3> QED
      BY <2>1, <3>1, <3>2
  <2>4. {claim[w] : w \in {v \in Staff(p) : pc[v] \in Handling}} \subseteq Ids
    BY DEF Staff
  <2>5. pc' \in [Workers -> Places]
    BY <1>5, <2>2, <2>3 DEF Stop, Staff
  <2>6. UNCHANGED <<claim, up>> /\ stopping' = stopping \cup {p} /\ p \in up
    BY <1>5 DEF Stop, qvars
  <2>7. ASSUME NEW w \in Workers
        PROVE  /\ claim'[w] # NoId <=> pc'[w] \in Holding
               /\ Home[w] \notin up' <=> pc'[w] = "off"
               /\ Home[w] \in up' \ stopping' => pc'[w] \in Looping
    <3>1. CASE w \in Staff(p)
      BY <2>3, <2>6, <3>1 DEF Staff
    <3>2. CASE w \notin Staff(p)
      BY <2>2, <2>6, <3>2 DEF Staff
    <3> QED
      BY <3>1, <3>2
  <2>8. stopping' \subseteq up' /\ left' \in [Mishaps -> Nat] /\ aborted' \subseteq Ids
        /\ UNCHANGED <<dirty, seen, finished, escaped>>
    <3>1. left' \in [Mishaps -> Nat]
      BY <1>5, SpendType DEF Stop
    <3> QED
      BY <1>5, <2>4, <2>6, <3>1 DEF Stop
  <2> QED
    BY <2>5, <2>7, <2>8
<1>6. ASSUME NEW p \in Procs, Gone(p), left' \in [Mishaps -> Nat] PROVE WTypeOK'
  <2>1. /\ p \in up /\ up' = up \ {p} /\ stopping' = stopping \ {p}
        /\ pc' = [w \in Workers |-> IF Home[w] = p THEN "off" ELSE pc[w]]
        /\ claim' = [w \in Workers |-> IF Home[w] = p THEN NoId ELSE claim[w]]
        /\ escaped' \subseteq escaped
        /\ UNCHANGED <<dirty, seen, finished, aborted>>
    BY <1>6 DEF Gone, Exit
  <2> HIDE DEF TypeOK
  <2> QED
    BY <1>6, <2>1
<1>7. ASSUME NEW w \in Workers, Fetch(w) PROVE WTypeOK'
  BY <1>7 DEF Fetch, Dequeue, Pending, Rows
<1>8. ASSUME NEW w \in Workers, DetectEnds(w) PROVE WTypeOK'
  <2>1. /\ UNCHANGED <<qvars, up, stopping, left, seen, aborted, escaped>>
        /\ pc[w] = "run" /\ pc' = [pc EXCEPT ![w] = "complete"]
        /\ finished' = finished \cup {claim[w]}
    BY <1>8 DEF DetectEnds, qvars
  <2>2. claim[w] \in Ids
    BY <2>1
  <2>3. dirty' \subseteq Ids
    BY <1>8, <2>2 DEF DetectEnds
  <2> QED
    BY <2>1, <2>2, <2>3 DEF qvars
<1>9. ASSUME NEW w \in Workers, ClusterReads(w) PROVE WTypeOK'
  BY <1>9 DEF ClusterReads, qvars
<1>10. ASSUME NEW w \in Workers, ClusterEnds(w) PROVE WTypeOK'
  <2>1. UNCHANGED <<claim, up, stopping, seen, aborted, escaped>> /\ pc[w] = "clustering"
        /\ pc' = [pc EXCEPT ![w] = "complete"] /\ finished' = finished \cup {claim[w]}
    BY <1>10 DEF ClusterEnds, qvars
  <2>2. left' \in [Mishaps -> Nat] /\ dirty' \subseteq Ids
    <3>1. CASE dirty' = dirty \ seen[w] /\ UNCHANGED left
      BY <3>1
    <3>2. CASE Spend("fault") /\ UNCHANGED dirty
      BY <3>2, SpendType
    <3> QED
      BY <1>10, <3>1, <3>2 DEF ClusterEnds
  <2>3. claim[w] \in Ids
    BY <2>1
  <2> HIDE DEF TypeOK
  <2> QED
    BY <2>1, <2>2, <2>3
<1>11. ASSUME NEW w \in Workers, Finish(w) PROVE WTypeOK'
  BY <1>11 DEF Finish, Complete
<1>12. ASSUME NEW w \in Workers, FinishRaises(w) PROVE WTypeOK'
  <2>1. /\ UNCHANGED <<up, stopping, dirty, seen, finished, aborted>>
        /\ escaped' \subseteq escaped \cup {w}
        /\ pc[w] \in {"complete", "drain"} /\ pc' = [pc EXCEPT ![w] = "poll"]
        /\ claim' = [claim EXCEPT ![w] = NoId]
    BY <1>12 DEF FinishRaises, Forget
  <2>2. left' \in [Mishaps -> Nat]
    BY <1>12, SpendType DEF FinishRaises
  <2>3. claim \in [Workers -> Ids \cup {NoId}]
    OBVIOUS
  <2> HIDE DEF TypeOK
  <2> QED
    BY <2>1, <2>2, <2>3
<1>13. ASSUME NEW w \in Workers, Dispatch(w) PROVE WTypeOK'
  <2>1. UNCHANGED <<claim, up, stopping, left, dirty, seen, finished, aborted, escaped>>
    BY <1>13 DEF Dispatch, EnqueueIfIdle
  <2>2. \/ pc[w] = "dispatch" /\ pc' = [pc EXCEPT ![w] = "poll"]
        \/ pc[w] = "lastDispatch" /\ pc' = [pc EXCEPT ![w] = "left"]
    BY <1>13 DEF Dispatch
  <2> HIDE DEF TypeOK
  <2> QED
    BY <2>1, <2>2
<1>14. ASSUME NEW w \in Workers, DispatchNothing(w) PROVE WTypeOK'
  <2>1. UNCHANGED <<claim, up, stopping, dirty, seen, finished, aborted, escaped>>
        /\ pc[w] = "dispatch" /\ pc' = [pc EXCEPT ![w] = "poll"]
    BY <1>14 DEF DispatchNothing, qvars
  <2>2. left' \in [Mishaps -> Nat]
    BY <1>14, SpendType DEF DispatchNothing
  <2> HIDE DEF TypeOK
  <2> QED
    BY <2>1, <2>2
<1>15. ASSUME NEW w \in Workers, FinishCancelled(w) PROVE WTypeOK'
  BY <1>15 DEF FinishCancelled, Complete
<1>16. ASSUME NEW w \in Workers, FetchNobodyWaitsFor(w) PROVE WTypeOK'
  <2>1. /\ UNCHANGED <<up, stopping, left, dirty, seen, finished, aborted, escaped>>
        /\ pc[w] = "lastPoll" /\ pc' = [pc EXCEPT ![w] = "dropped"]
    BY <1>16 DEF FetchNobodyWaitsFor, Dequeue
  <2>2. PICK i \in Ids : claim' = [claim EXCEPT ![w] = i]
    BY <1>16 DEF FetchNobodyWaitsFor, Dequeue, Pending, Rows
  <2>3. claim \in [Workers -> Ids \cup {NoId}]
    OBVIOUS
  <2> HIDE DEF TypeOK
  <2> QED
    BY <2>1, <2>2, <2>3
<1>17. ASSUME NEW w \in Workers, Drop(w) PROVE WTypeOK'
  BY <1>17 DEF Drop, Forget
<1>18. ASSUME NEW w \in Workers, Leave(w) PROVE WTypeOK'
  BY <1>18 DEF Leave, qvars
<1>19. CASE UNCHANGED wvars
  BY <1>19 DEF wvars, qvars
<1>20. ASSUME NEW p \in Procs, StopEnds(p) \/ Crash(p) PROVE WTypeOK'
  BY <1>6, <1>20 DEF StopEnds, Crash
<1>21. ASSUME NEW w \in Workers, Sleep(w) PROVE WTypeOK'
  BY <1>19, <1>21 DEF Sleep
<1> QED
  BY <1>1, <1>2, <1>3, <1>4, <1>5, <1>7, <1>8, <1>9, <1>10, <1>11, <1>12, <1>13, <1>14,
     <1>15, <1>16, <1>17, <1>18, <1>19, <1>20, <1>21
     DEF WNext, ProcStep, Work

\* Every reachable state is well typed, and a worker holds a job exactly in
\* the places of the loop between dequeue and the end of complete.
THEOREM WorkersTyped == WSpec => []WTypeOK
  BY InitWType, NextWType, PTL DEF WSpec

-------------------------------------------------------------------------------
(* No accepted job is lost, unless a shutdown cancels its handler            *)

\* What happens to the rows when the workers' own variables stand still.
LEMMA RequestStep ==
  ASSUME NEW p \in Procs, Request(p) \/ RequestEnds(p) \/ PurgeQueue(p)
  PROVE  /\ UNCHANGED <<claim, pc, finished, aborted, escaped>>
         /\ (\E j : EnqueueCheck(p, j)) \/ EnqueueInsert(p) \/ EnqueueRaise(p) \/ Purge(p)
  BY DEF Request, RequestEnds, PurgeQueue, EnqueueCheck, EnqueueInsert, EnqueueRaise, Purge, ends

\* Every step keeps: completed means handled, drained means cancelled.
LEMMA NextEnds == WTypeOK /\ EndsInv /\ [WNext]_wvars => EndsInv'
<1> SUFFICES ASSUME WTypeOK, EndsInv, [WNext]_wvars PROVE EndsInv'
  OBVIOUS
<1> USE QueueAssumption
    DEF QueueAssumption, WTypeOK, TypeOK, EndsInv, faces, ends, Goto, Handling, Looping
<1>1. ASSUME NEW p \in Procs, Request(p) \/ RequestEnds(p) \/ PurgeQueue(p) PROVE EndsInv'
  BY <1>1, RequestStep
<1>2. ASSUME NEW p \in Procs, StartUp(p) PROVE EndsInv'
  BY <1>2 DEF StartUp, Start
<1>3. ASSUME NEW p \in Procs, Stop(p) PROVE EndsInv'
  <2>1. UNCHANGED <<claim, finished>>
    BY <1>3 DEF Stop, qvars
  <2>2. ASSUME NEW w \in Staff(p)
        PROVE  /\ pc[w] \in Looping
               /\ pc'[w] \in {"complete", "lastComplete"} => pc[w] = "complete"
               /\ pc'[w] = "drain" => pc[w] \in Handling
    BY <1>3 DEF Stop, Staff, Cancelled
  <2>3. \A w \in Staff(p) : pc[w] \in Handling => claim[w] \in aborted'
    BY <1>3 DEF Stop
  <2>4. \A w \in Workers \ Staff(p) : pc'[w] = pc[w]
    BY <1>3 DEF Stop
  <2>5. aborted \subseteq aborted'
    BY <1>3 DEF Stop
  <2> QED
    BY <2>1, <2>2, <2>3, <2>4, <2>5 DEF Staff
<1>4. ASSUME NEW p \in Procs, Gone(p) PROVE EndsInv'
  BY <1>4 DEF Gone, Exit
<1>5. ASSUME NEW w \in Workers, Fetch(w) \/ FetchNobodyWaitsFor(w) PROVE EndsInv'
  BY <1>5 DEF Fetch, FetchNobodyWaitsFor, Dequeue
<1>6. ASSUME NEW w \in Workers, DetectEnds(w) \/ ClusterReads(w) \/ ClusterEnds(w) PROVE EndsInv'
  BY <1>6 DEF DetectEnds, ClusterReads, ClusterEnds, qvars
<1>7. ASSUME NEW w \in Workers, Finish(w) \/ FinishCancelled(w) PROVE EndsInv'
  BY <1>7 DEF Finish, FinishCancelled, Complete
<1>8. ASSUME NEW w \in Workers, FinishRaises(w) \/ Drop(w) PROVE EndsInv'
  BY <1>8 DEF FinishRaises, Drop, Forget
<1>9. ASSUME NEW w \in Workers, Dispatch(w) PROVE EndsInv'
  BY <1>9 DEF Dispatch, EnqueueIfIdle
<1>10. ASSUME NEW w \in Workers, DispatchNothing(w) \/ Leave(w) PROVE EndsInv'
  BY <1>10 DEF DispatchNothing, Leave, qvars
<1>11. CASE UNCHANGED wvars
  BY <1>11 DEF wvars, qvars
<1> QED
  BY <1>1, <1>2, <1>3, <1>4, <1>5, <1>6, <1>7, <1>8, <1>9, <1>10, <1>11
     DEF WNext, ProcStep, Work, StopEnds, Crash, Sleep

Accounted == finished \cup purged \cup aborted

\* Rows that do not go, and books that only grow, keep every job accounted
\* for.
LEMMA StaysAccounted ==
  ASSUME LostOnlyByStop, Accounted \subseteq Accounted',
         \A i \in Ids : i < nextId' /\ status'[i] = "absent" =>
             i \in Accounted' \/ (i < nextId /\ status[i] = "absent")
  PROVE  LostOnlyByStop'
  BY DEF LostOnlyByStop, Accounted

\* Every step keeps the jobs that are gone accounted for.
LEMMA NextLost == WTypeOK /\ EndsInv /\ LostOnlyByStop /\ [WNext]_wvars => LostOnlyByStop'
<1> SUFFICES ASSUME WTypeOK, EndsInv, LostOnlyByStop, [WNext]_wvars PROVE LostOnlyByStop'
  OBVIOUS
<1> USE QueueAssumption DEF QueueAssumption, WTypeOK, TypeOK, faces, ends, Ids
<1>1. ASSUME NEW p \in Procs, Request(p) \/ RequestEnds(p) \/ PurgeQueue(p) PROVE LostOnlyByStop'
  <2>1. UNCHANGED <<finished, aborted, escaped>>
    BY <1>1, RequestStep
  <2>2. CASE Purge(p)
    BY <2>1, <2>2, StaysAccounted DEF Purge, Pending, Rows, Accounted
  <2>3. CASE EnqueueInsert(p)
    BY <2>1, <2>3, StaysAccounted DEF EnqueueInsert, Insert, history, Accounted
  <2>4. CASE (\E j : EnqueueCheck(p, j)) \/ EnqueueRaise(p)
    BY <2>1, <2>4, StaysAccounted DEF EnqueueCheck, EnqueueRaise, table, history, Accounted
  <2> QED
    BY <1>1, <2>2, <2>3, <2>4, RequestStep
<1>2. ASSUME NEW p \in Procs, StartUp(p) PROVE LostOnlyByStop'
  BY <1>2, StaysAccounted DEF StartUp, Start, Processing, Rows, Accounted
<1>3. ASSUME NEW p \in Procs, Stop(p) PROVE LostOnlyByStop'
  BY <1>3, StaysAccounted DEF Stop, qvars, Accounted
<1>4. ASSUME NEW p \in Procs, Gone(p) PROVE LostOnlyByStop'
  BY <1>4, StaysAccounted DEF Gone, Exit, table, history, Accounted
<1>5. ASSUME NEW w \in Workers, Fetch(w) \/ FetchNobodyWaitsFor(w) PROVE LostOnlyByStop'
  BY <1>5, StaysAccounted
     DEF Fetch, FetchNobodyWaitsFor, Dequeue, MarkProcessing, history, Pending, Rows, Accounted
<1>6. ASSUME NEW w \in Workers, DetectEnds(w) \/ ClusterReads(w) \/ ClusterEnds(w)
      PROVE LostOnlyByStop'
  BY <1>6, StaysAccounted DEF DetectEnds, ClusterReads, ClusterEnds, qvars, Accounted
<1>7. ASSUME NEW w \in Workers, Finish(w) \/ FinishCancelled(w) PROVE LostOnlyByStop'
  <2>1. claim[w] \in Accounted
    BY <1>7 DEF Finish, FinishCancelled, EndsInv, Accounted
  <2>2. UNCHANGED <<nextId, finished, aborted, purged>>
        /\ status' = [status EXCEPT ![claim[w]] = "absent"]
    BY <1>7 DEF Finish, FinishCancelled, Complete, history
  <2> QED
    BY <2>1, <2>2, StaysAccounted DEF Accounted
<1>8. ASSUME NEW w \in Workers, FinishRaises(w) \/ Drop(w) PROVE LostOnlyByStop'
  BY <1>8, StaysAccounted DEF FinishRaises, Drop, Forget, table, history, Accounted
<1>9. ASSUME NEW w \in Workers, Dispatch(w) PROVE LostOnlyByStop'
  BY <1>9, StaysAccounted DEF Dispatch, EnqueueIfIdle, Insert, Accounted
<1>10. ASSUME NEW w \in Workers, DispatchNothing(w) \/ Leave(w) PROVE LostOnlyByStop'
  BY <1>10, StaysAccounted DEF DispatchNothing, Leave, qvars, Accounted
<1>11. CASE UNCHANGED wvars
  BY <1>11, StaysAccounted DEF wvars, qvars, Accounted
<1> QED
  BY <1>1, <1>2, <1>3, <1>4, <1>5, <1>6, <1>7, <1>8, <1>9, <1>10, <1>11
     DEF WNext, ProcStep, Work, StopEnds, Crash, Sleep

\* A completed job was handled to the end, an interrupted one was cancelled.
THEOREM EndsKept == WSpec => []EndsInv
<1>1. WInit => EndsInv
  BY DEF WInit, EndsInv
<1>2. WTypeOK /\ EndsInv /\ [WNext]_wvars => EndsInv'
  BY NextEnds
<1> QED
  BY <1>1, <1>2, WorkersTyped, PTL DEF WSpec

\* A job that is gone was handled to its end, purged, or cancelled in the
\* middle by a shutdown - and by nothing else.
THEOREM NoJobLost == WSpec => []LostOnlyByStop
<1>1. WInit => WTypeOK /\ EndsInv /\ LostOnlyByStop
  <2>1. WInit => EndsInv /\ LostOnlyByStop
    BY DEF WInit, Init, EndsInv, LostOnlyByStop, Ids
  <2> QED
    BY <2>1, InitWType
<1>2. WTypeOK /\ EndsInv /\ LostOnlyByStop /\ [WNext]_wvars
        => (WTypeOK /\ EndsInv /\ LostOnlyByStop)'
  BY NextWType, NextEnds, NextLost
<1> QED
  BY <1>1, <1>2, PTL DEF WSpec

-------------------------------------------------------------------------------
(* A job is handled again only after a start put it back                     *)

\* A finished job whose row is still there is on its way out, unless a start
\* put it back to pending.
RetryInv ==
    /\ stolen \subseteq redelivered
    /\ \A i \in finished : i < nextId /\ (status[i] = "pending" => i \in redelivered)
    /\ HandledAgainOnlyAfterRecovery

\* Every step keeps retries to what a start put back.
LEMMA NextRetry == WTypeOK /\ QueueInv /\ RetryInv /\ [WNext]_wvars => RetryInv'
<1> SUFFICES ASSUME WTypeOK, QueueInv, RetryInv, [WNext]_wvars PROVE RetryInv'
  OBVIOUS
<1> USE QueueAssumption
    DEF QueueAssumption, WTypeOK, TypeOK, RetryInv, HandledAgainOnlyAfterRecovery, faces, ends,
        Goto, Handling, Ids
<1>1. ASSUME NEW p \in Procs, Request(p) \/ RequestEnds(p) \/ PurgeQueue(p) PROVE RetryInv'
  <2>1. UNCHANGED <<claim, pc, finished>>
    BY <1>1, RequestStep
  <2>2. CASE Purge(p)
    BY <2>1, <2>2 DEF Purge, Pending, Rows
  <2>3. CASE EnqueueInsert(p)
    BY <2>1, <2>3 DEF EnqueueInsert, Insert, history
  <2>4. CASE (\E j : EnqueueCheck(p, j)) \/ EnqueueRaise(p)
    <3>1. UNCHANGED <<status, nextId, redelivered, stolen>>
      BY <2>4 DEF EnqueueCheck, EnqueueRaise, table, history
    <3> QED
      BY <2>1, <3>1
  <2> QED
    BY <1>1, <2>2, <2>3, <2>4, RequestStep
<1>2. ASSUME NEW p \in Procs, StartUp(p) PROVE RetryInv'
  BY <1>2 DEF StartUp, Start, Processing, Rows
<1>3. ASSUME NEW p \in Procs, Stop(p) PROVE RetryInv'
  <2>1. UNCHANGED qvars /\ UNCHANGED finished
    BY <1>3 DEF Stop
  <2>2. \A w \in Workers : pc'[w] \in Handling => pc[w] \in Handling
    BY <1>3 DEF Stop, Staff, Cancelled, Looping
  <2> QED
    BY <2>1, <2>2 DEF qvars
<1>4. ASSUME NEW p \in Procs, Gone(p) PROVE RetryInv'
  BY <1>4 DEF Gone, Exit, table, history
<1>5. ASSUME NEW w \in Workers, Fetch(w) \/ FetchNobodyWaitsFor(w) PROVE RetryInv'
  <2>1. PICK i \in Pending : MarkProcessing(i) /\ claim' = [claim EXCEPT ![w] = i]
    BY <1>5 DEF Fetch, FetchNobodyWaitsFor, Dequeue
  <2>2. i \in Ids /\ status[i] = "pending"
    BY DEF Pending, Rows
  <2>3. UNCHANGED <<nextId, redelivered, stolen, finished>>
    BY <1>5 DEF Fetch, FetchNobodyWaitsFor, Dequeue, history
  <2>4. pc' \in {[pc EXCEPT ![w] = "run"], [pc EXCEPT ![w] = "dropped"]}
    BY <1>5 DEF Fetch, FetchNobodyWaitsFor
  <2>5. \A k \in Ids : status'[k] = "pending" => status[k] = "pending"
    BY <2>1, <2>2 DEF MarkProcessing
  <2>6. HandledAgainOnlyAfterRecovery'
    BY <2>1, <2>2, <2>3, <2>4
  <2> QED
    BY <2>3, <2>5, <2>6
<1>6. ASSUME NEW w \in Workers, DetectEnds(w) \/ ClusterEnds(w) PROVE RetryInv'
  \* Were its row pending, or another worker at it, the job would be stolen.
  <2>1. /\ UNCHANGED qvars /\ finished' = finished \cup {claim[w]}
        /\ pc' = [pc EXCEPT ![w] = "complete"] /\ pc[w] \in Handling
    BY <1>6 DEF DetectEnds, ClusterEnds
  <2>2. claim[w] \in Ids /\ claim[w] < nextId /\ claim[w] # NoId
    BY <2>1 DEF Holding, QueueInv, LedgerInv, NoId
  <2>3. status[claim[w]] = "pending" => claim[w] \in redelivered
    BY <2>2 DEF QueueInv, InFlightShielded
  <2>4. \A v \in Workers : v # w /\ claim[v] = claim[w] => claim[v] \in redelivered
    BY <2>2 DEF QueueInv, ExclusiveClaim
  <2> QED
    BY <2>1, <2>2, <2>3, <2>4 DEF qvars
<1>7. ASSUME NEW w \in Workers, ClusterReads(w) PROVE RetryInv'
  BY <1>7 DEF ClusterReads, qvars
<1>8. ASSUME NEW w \in Workers, Finish(w) \/ FinishCancelled(w) PROVE RetryInv'
  <2>1. /\ UNCHANGED <<nextId, redelivered, stolen, finished>>
        /\ status' = [status EXCEPT ![claim[w]] = "absent"]
        /\ claim' = [claim EXCEPT ![w] = NoId]
    BY <1>8 DEF Finish, FinishCancelled, Complete, history
  <2>2. pc'[w] \notin Handling /\ \A v \in Workers \ {w} : pc'[v] = pc[v]
    BY <1>8 DEF Finish, FinishCancelled
  <2>3. HandledAgainOnlyAfterRecovery'
    BY <2>1, <2>2
  <2> QED
    BY <2>1, <2>3
<1>9. ASSUME NEW w \in Workers, FinishRaises(w) \/ Drop(w) PROVE RetryInv'
  <2>1. /\ UNCHANGED <<status, nextId, redelivered, stolen, finished>>
        /\ claim' = [claim EXCEPT ![w] = NoId]
    BY <1>9 DEF FinishRaises, Drop, Forget, table, history
  <2>2. pc'[w] \notin Handling /\ \A v \in Workers \ {w} : pc'[v] = pc[v]
    BY <1>9 DEF FinishRaises, Drop
  <2>3. HandledAgainOnlyAfterRecovery'
    BY <2>1, <2>2
  <2> QED
    BY <2>1, <2>3
<1>10. ASSUME NEW w \in Workers, Dispatch(w) PROVE RetryInv'
  <2>1. /\ UNCHANGED <<claim, redelivered, stolen, finished>>
        /\ \/ UNCHANGED <<status, nextId>>
           \/ status' = [status EXCEPT ![nextId] = "pending"] /\ nextId' = nextId + 1
    BY <1>10 DEF Dispatch, EnqueueIfIdle, Insert
  <2>2. pc'[w] \notin Handling /\ \A v \in Workers \ {w} : pc'[v] = pc[v]
    BY <1>10 DEF Dispatch
  <2>3. HandledAgainOnlyAfterRecovery'
    BY <2>1, <2>2
  <2> QED
    BY <2>1, <2>3
<1>11. ASSUME NEW w \in Workers, DispatchNothing(w) \/ Leave(w) PROVE RetryInv'
  <2>1. UNCHANGED <<qvars, finished>>
    BY <1>11 DEF DispatchNothing, Leave
  <2>2. pc'[w] \notin Handling /\ \A v \in Workers \ {w} : pc'[v] = pc[v]
    BY <1>11 DEF DispatchNothing, Leave
  <2>3. HandledAgainOnlyAfterRecovery'
    BY <2>1, <2>2 DEF qvars
  <2> QED
    BY <2>1, <2>3 DEF qvars
<1>12. CASE UNCHANGED wvars
  BY <1>12 DEF wvars, qvars
<1> QED
  BY <1>1, <1>2, <1>3, <1>4, <1>5, <1>6, <1>7, <1>8, <1>9, <1>10, <1>11, <1>12
     DEF WNext, ProcStep, Work, StopEnds, Crash, Sleep

\* A finished job is handled a second time only if a starting process put it
\* back to pending: no interleaving of workers or siblings repeats a job.
THEOREM RetriedOnlyAfterRecovery == WSpec => []HandledAgainOnlyAfterRecovery
<1>1. WInit => WTypeOK /\ QueueInv /\ RetryInv
  <2>1. WInit => RetryInv
    BY DEF WInit, Init, RetryInv, HandledAgainOnlyAfterRecovery
  <2> QED
    BY <2>1, InitWType, InitQueueInv DEF WInit
<1>2. WTypeOK /\ QueueInv /\ RetryInv /\ [WNext]_wvars => (WTypeOK /\ QueueInv /\ RetryInv)'
  BY NextWType, NextRetry, NextQueueInv, StepIsQueueStep
<1>3. RetryInv => HandledAgainOnlyAfterRecovery
  BY DEF RetryInv
<1> QED
  BY <1>1, <1>2, <1>3, PTL DEF WSpec

-------------------------------------------------------------------------------
(* Services that are never stopped, and services of one process              *)

NeverStopped == left["stop"] = 0 /\ aborted = {}

\* No mishap of another kind makes a shutdown possible.
LEMMA SpendKeeps ==
  ASSUME WTypeOK, left["stop"] = 0, NEW m \in Mishaps \ {"stop"}, Spend(m)
  PROVE  left'["stop"] = 0
  BY DEF WTypeOK, Spend, Mishaps

\* Without a shutdown to come, no step cancels a handler.
LEMMA NextNeverStopped ==
  ASSUME WTypeOK, NeverStopped, [WNext]_wvars PROVE NeverStopped'
<1> USE DEF NeverStopped, faces, ends, Mishaps
<1>1. ASSUME NEW p \in Procs, Request(p) \/ StartUp(p) \/ StopEnds(p) PROVE NeverStopped'
  BY <1>1 DEF Request, StartUp, StopEnds, Gone
<1>2. ASSUME NEW p \in Procs, RequestEnds(p) PROVE NeverStopped'
  BY <1>2, SpendKeeps DEF RequestEnds
<1>3. ASSUME NEW p \in Procs, PurgeQueue(p) PROVE NeverStopped'
  BY <1>3, SpendKeeps DEF PurgeQueue
<1>4. ASSUME NEW p \in Procs, Crash(p) PROVE NeverStopped'
  BY <1>4, SpendKeeps DEF Crash, Gone
<1>5. ASSUME NEW p \in Procs, Stop(p) PROVE NeverStopped'
  BY <1>5 DEF Stop, Spend
<1>6. ASSUME NEW w \in Workers, ClusterEnds(w) PROVE NeverStopped'
  BY <1>6, SpendKeeps DEF ClusterEnds
<1>7. ASSUME NEW w \in Workers, FinishRaises(w) PROVE NeverStopped'
  BY <1>7, SpendKeeps DEF FinishRaises
<1>8. ASSUME NEW w \in Workers, DispatchNothing(w) PROVE NeverStopped'
  BY <1>8, SpendKeeps DEF DispatchNothing
<1>9. ASSUME NEW w \in Workers,
             Fetch(w) \/ DetectEnds(w) \/ ClusterReads(w) \/ Finish(w) \/ Dispatch(w)
      PROVE NeverStopped'
  BY <1>9 DEF Fetch, DetectEnds, ClusterReads, Finish, Dispatch
<1>10. ASSUME NEW w \in Workers,
              FinishCancelled(w) \/ FetchNobodyWaitsFor(w) \/ Drop(w) \/ Leave(w)
       PROVE NeverStopped'
  BY <1>10 DEF FinishCancelled, FetchNobodyWaitsFor, Drop, Leave
<1>11. CASE UNCHANGED wvars
  BY <1>11 DEF wvars
<1> QED
  BY <1>1, <1>2, <1>3, <1>4, <1>5, <1>6, <1>7, <1>8, <1>9, <1>10, <1>11
     DEF WNext, ProcStep, Work, Sleep

\* As long as no process is shut down, however many crash, an accepted job
\* that is gone was handled to its end or purged.
THEOREM CrashesLoseNothing ==
  ASSUME Budget["stop"] = 0 PROVE WSpec => []NothingLost
<1>1. WInit => NeverStopped
  BY DEF WInit, NeverStopped
<1>2. WTypeOK /\ NeverStopped /\ [WNext]_wvars => NeverStopped'
  BY NextNeverStopped
<1>3. NeverStopped /\ LostOnlyByStop => NothingLost
  BY DEF NeverStopped, LostOnlyByStop, NothingLost
<1> QED
  BY <1>1, <1>2, <1>3, WorkersTyped, NoJobLost, PTL DEF WSpec

\* With one process, the workers, the requests, the crashes and the shutdowns
\* together are a queue as base.py describes it.
THEOREM ServiceImplementsContract == ASSUME OneProcess PROVE WSpec => Contract
  BY WorkersDriveQueue, ImplementsContract, PTL
-------------------------------------------------------------------------------
(* A stopping process waits for ever only after a completion has raised      *)

LoopsInStop == {w \in Workers : Home[w] \in stopping /\ pc[w] \in Looping}

\* A step that takes no worker of a stopping process in or out of its loop.
LEMMA NobodyReturns ==
  ASSUME LoopsInStopOnlyIfEscaped, UNCHANGED escaped,
         \A w \in Workers : Home[w] \in stopping' /\ pc'[w] \in Looping <=>
             Home[w] \in stopping /\ pc[w] \in Looping
  PROVE  LoopsInStopOnlyIfEscaped'
  BY DEF LoopsInStopOnlyIfEscaped

LEMMA NextEscaped == WTypeOK /\ LoopsInStopOnlyIfEscaped /\ [WNext]_wvars => LoopsInStopOnlyIfEscaped'
<1> SUFFICES ASSUME WTypeOK, LoopsInStopOnlyIfEscaped, [WNext]_wvars
             PROVE LoopsInStopOnlyIfEscaped'
  OBVIOUS
<1>0. /\ pc \in [Workers -> Places] /\ escaped = LoopsInStop
      /\ \A w \in Workers : Home[w] \in up \ stopping => pc[w] \in Looping
  BY DEF WTypeOK, LoopsInStopOnlyIfEscaped, LoopsInStop
<1> USE DEF Looping, Handling, ends
<1>1. ASSUME NEW p \in Procs, Request(p) \/ RequestEnds(p) \/ PurgeQueue(p)
      PROVE LoopsInStopOnlyIfEscaped'
  BY <1>1, NobodyReturns DEF Request, RequestEnds, PurgeQueue
<1>2. ASSUME NEW p \in Procs, StartUp(p) PROVE LoopsInStopOnlyIfEscaped'
  <2>1. p \notin stopping /\ UNCHANGED <<escaped, stopping>>
        /\ \A w \in Workers : Home[w] # p => pc'[w] = pc[w]
    BY <1>2 DEF StartUp, Start, WTypeOK
  <2> QED
    BY <2>1, NobodyReturns
<1>3. ASSUME NEW p \in Procs, Stop(p) PROVE LoopsInStopOnlyIfEscaped'
  <2>1. /\ p \notin stopping /\ stopping' = stopping \cup {p} /\ UNCHANGED escaped
        /\ \A w \in Staff(p) : pc[w] \in Looping
    BY <1>0, <1>3 DEF Stop, Staff
  <2>2. \A w \in Workers : pc'[w] = IF w \in Staff(p) THEN Cancelled[pc[w]] ELSE pc[w]
    BY <1>3 DEF Stop
  <2>3. \A w \in Staff(p) : pc'[w] \notin Looping /\ Home[w] \notin stopping
    BY <2>1, <2>2 DEF Cancelled, Staff
  <2> QED
    BY <2>1, <2>2, <2>3, NobodyReturns DEF Staff
<1>4. ASSUME NEW p \in Procs, Gone(p) PROVE LoopsInStopOnlyIfEscaped'
  <2>1. stopping' = stopping \ {p} /\ escaped' = escaped \ Staff(p)
    BY <1>4 DEF Gone
  <2>2. \A w \in Workers : pc'[w] = IF Home[w] = p THEN "off" ELSE pc[w]
    BY <1>4 DEF Gone
  <2> QED
    BY <1>0, <2>1, <2>2 DEF LoopsInStopOnlyIfEscaped, LoopsInStop, Staff
<1>5. ASSUME NEW w \in Workers, UNCHANGED <<stopping, escaped>>, NEW l,
             pc' = [pc EXCEPT ![w] = l], pc[w] \in Looping <=> l \in Looping
      PROVE LoopsInStopOnlyIfEscaped'
  BY <1>0, <1>5, NobodyReturns
<1>6. ASSUME NEW w \in Workers,
             Fetch(w) \/ DetectEnds(w) \/ ClusterReads(w) \/ ClusterEnds(w) \/ Finish(w)
      PROVE LoopsInStopOnlyIfEscaped'
  BY <1>5, <1>6 DEF Fetch, DetectEnds, ClusterReads, ClusterEnds, Finish, Goto
<1>7. ASSUME NEW w \in Workers, Dispatch(w) \/ DispatchNothing(w) PROVE LoopsInStopOnlyIfEscaped'
  BY <1>5, <1>7 DEF Dispatch, DispatchNothing, Goto
<1>8. ASSUME NEW w \in Workers, FinishRaises(w) PROVE LoopsInStopOnlyIfEscaped'
  <2>1. UNCHANGED stopping /\ pc' = [pc EXCEPT ![w] = "poll"]
    BY <1>8 DEF FinishRaises, Goto
  <2>2. CASE pc[w] = "complete"
    BY <1>5, <1>8, <2>1, <2>2 DEF FinishRaises
  <2>3. CASE pc[w] = "drain"
    <3>1. Home[w] \in stopping
      BY <2>3 DEF WTypeOK
    <3>2. escaped' = escaped \cup {w}
      BY <1>8, <2>3 DEF FinishRaises
    <3> QED
      BY <1>0, <2>1, <3>1, <3>2 DEF LoopsInStopOnlyIfEscaped, LoopsInStop
  <2> QED
    BY <1>8, <2>2, <2>3 DEF FinishRaises
<1>9. ASSUME NEW w \in Workers,
             FinishCancelled(w) \/ FetchNobodyWaitsFor(w) \/ Drop(w) \/ Leave(w)
      PROVE LoopsInStopOnlyIfEscaped'
  BY <1>5, <1>9 DEF FinishCancelled, FetchNobodyWaitsFor, Drop, Leave, Goto
<1>10. CASE UNCHANGED wvars
  BY <1>10, NobodyReturns DEF wvars
<1> QED
  BY <1>1, <1>2, <1>3, <1>4, <1>6, <1>7, <1>8, <1>9, <1>10
     DEF WNext, ProcStep, Work, StopEnds, Crash, Sleep

\* However often it is told to stop, a worker of a stopping process is back
\* in its loop exactly if its own complete() has raised in the stop.
THEOREM StuckOnlyIfEscaped == WSpec => []LoopsInStopOnlyIfEscaped
<1>1. WInit => LoopsInStopOnlyIfEscaped
  BY DEF WInit, LoopsInStopOnlyIfEscaped
<1>2. WTypeOK /\ LoopsInStopOnlyIfEscaped /\ [WNext]_wvars => LoopsInStopOnlyIfEscaped'
  BY NextEscaped
<1> QED
  BY <1>1, <1>2, WorkersTyped, PTL DEF WSpec

===============================================================================
