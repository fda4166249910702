--------------------------- MODULE DbJobQueueProofs ---------------------------
(***************************************************************************)
(* What holds of the job_queue table for any number of processes, workers, *)
(* jobs and rows, what more one process may rely on, and that position()   *)
(* is right then.                                                          *)
(***************************************************************************)
EXTENDS QueuePosition, FiniteSetTheorems, WellFoundedInduction, TLAPS

\* The initial state satisfies the typing invariant.
LEMMA InitType == Init => TypeOK
  BY QueueAssumption DEF QueueAssumption, Init, TypeOK, Live, Pending, Processing, Rows, Ids, NoId

\* A new row keeps the table typed and the counter ahead of every row.
LEMMA InsertType ==
  ASSUME TypeOK, NEW j \in Jobs, Insert(j)
  PROVE  /\ status' \in [Ids -> {"absent", "pending", "processing"}]
         /\ job' \in [Ids -> Jobs \cup {NoJob}]
         /\ nextId' \in 1..(MaxId + 1)
         /\ \A i \in Live' : i < nextId'
         /\ nextId \in Ids
  BY QueueAssumption DEF QueueAssumption, TypeOK, Insert, Live, Pending, Processing, Rows, Ids

\* Every critical section of the queue keeps the variables in their types.
LEMMA NextType == TypeOK /\ [Next]_qvars => TypeOK'
<1> SUFFICES ASSUME TypeOK, [Next]_qvars PROVE TypeOK'
  OBVIOUS
<1> USE QueueAssumption DEF QueueAssumption
<1>1. ASSUME NEW p \in Procs, NEW j \in Jobs, EnqueueCheck(p, j) PROVE TypeOK'
  BY <1>1 DEF EnqueueCheck, TypeOK, table, history, Live, Pending, Processing, Rows
<1>2. ASSUME NEW p \in Procs, NEW j \in Jobs, EnqueueIfIdle(p, j) PROVE TypeOK'
  BY <1>2, InsertType DEF EnqueueIfIdle, TypeOK
<1>3. ASSUME NEW p \in Procs, EnqueueInsert(p) PROVE TypeOK'
  <2>1. admitted[p] \in Jobs
    BY <1>3 DEF EnqueueInsert, TypeOK
  <2> QED
    BY <1>3, <2>1, InsertType DEF EnqueueInsert, TypeOK, history
<1>4. ASSUME NEW p \in Procs, EnqueueRaise(p) PROVE TypeOK'
  BY <1>4 DEF EnqueueRaise, TypeOK, table, history, Live, Pending, Processing, Rows
<1>5. ASSUME NEW p \in Procs, Purge(p) PROVE TypeOK'
  BY <1>5 DEF Purge, TypeOK, Live, Pending, Processing, Rows
<1>6. ASSUME NEW p \in Procs, Start(p) PROVE TypeOK'
  BY <1>6 DEF Start, TypeOK, Live, Pending, Processing, Rows
<1>7. ASSUME NEW p \in Procs, Exit(p) PROVE TypeOK'
  BY <1>7 DEF Exit, TypeOK, table, history, Live, Pending, Processing, Rows
<1>8. ASSUME NEW w \in Workers, Dequeue(w) PROVE TypeOK'
  BY <1>8 DEF Dequeue, MarkProcessing, TypeOK, history, Live, Pending, Processing, Rows
<1>9. ASSUME NEW w \in Workers, Complete(w) PROVE TypeOK'
  BY <1>9 DEF Complete, TypeOK, history, Live, Pending, Processing, Rows
<1>10. ASSUME NEW w \in Workers, Forget(w) PROVE TypeOK'
  BY <1>10 DEF Forget, TypeOK, table, history, Live, Pending, Processing, Rows
<1>11. CASE UNCHANGED qvars
  BY <1>11 DEF qvars, TypeOK, Live, Pending, Processing, Rows
<1> QED
  BY <1>1, <1>2, <1>3, <1>4, <1>5, <1>6, <1>7, <1>8, <1>9, <1>10, <1>11
     DEF Next, ProcNext, WorkerNext

\* Every reachable state is well typed: a row has one of three statuses and
\* the AUTOINCREMENT counter is ahead of every row in the table.
THEOREM TypeCorrect == Spec => []TypeOK
  BY InitType, NextType, PTL DEF Spec

-------------------------------------------------------------------------------
(* Claims, purges and solo rows                                              *)

\* The initial state satisfies the inductive invariant.
LEMMA InitQueueInv == Init => QueueInv
  BY InitType DEF Init, QueueInv, LedgerInv, ExclusiveClaim, InFlightShielded,
                  SoloIsOldest, Live, Pending, Processing, Rows

\* An insert disturbs nothing: its row is beyond every id in use.
LEMMA InsertKeepsClaims ==
  ASSUME QueueInv, NEW j \in Jobs, Insert(j), UNCHANGED <<up, claim, purged, stolen>>
  PROVE  /\ \A i \in purged' : status'[i] = "absent" /\ i < nextId'
         /\ \A w \in Workers : claim'[w] # NoId => claim'[w] < nextId' /\ Home[w] \in up'
         /\ ExclusiveClaim'
         /\ InFlightShielded'
         /\ nextId \in Ids /\ nextId < nextId'
<1> USE QueueAssumption DEF QueueAssumption, QueueInv, TypeOK, LedgerInv, Insert, Ids, NoId
<1>1. nextId \in Ids /\ nextId < nextId'
  OBVIOUS
<1>2. \A i \in purged' : status'[i] = "absent" /\ i < nextId'
  OBVIOUS
<1>3. \A w \in Workers : claim'[w] # NoId => claim'[w] < nextId' /\ Home[w] \in up'
  OBVIOUS
<1>4. ExclusiveClaim'
  BY DEF ExclusiveClaim
<1>5. InFlightShielded'
  BY DEF InFlightShielded
<1> QED
  BY <1>1, <1>2, <1>3, <1>4, <1>5

\* Every critical section of the queue preserves the invariant.
LEMMA NextQueueInv == QueueInv /\ [Next]_qvars => QueueInv'
<1> SUFFICES ASSUME QueueInv, [Next]_qvars PROVE QueueInv'
  OBVIOUS
<1>0. TypeOK /\ TypeOK'
  BY NextType DEF QueueInv
<1> USE QueueAssumption DEF QueueAssumption
<1>1. ASSUME NEW p \in Procs, NEW j \in Jobs, EnqueueCheck(p, j) PROVE QueueInv'
  BY <1>0, <1>1 DEF EnqueueCheck, QueueInv, LedgerInv, ExclusiveClaim, InFlightShielded,
       SoloIsOldest, table, history, Live, Pending, Processing, Rows
<1>2. ASSUME NEW p \in Procs, NEW j \in Jobs, EnqueueIfIdle(p, j) PROVE QueueInv'
  <2>1. Insert(j) /\ UNCHANGED <<up, claim, purged, stolen>> /\ Idle
        /\ solo' = solo \cup {nextId}
    BY <1>2 DEF EnqueueIfIdle
  <2>2. LedgerInv'
    BY <2>1, <1>0, InsertKeepsClaims DEF LedgerInv, QueueInv, TypeOK, Ids
  <2>3. SoloIsOldest'
    <3>1. Live' = {nextId}
      BY <2>1, <1>0 DEF Idle, Insert, TypeOK, Live, Pending, Processing, Rows
    <3> QED
      BY <3>1, <1>0 DEF SoloIsOldest, TypeOK, Ids
  <2> QED
    BY <2>1, <2>2, <2>3, <1>0, InsertKeepsClaims DEF QueueInv
<1>3. ASSUME NEW p \in Procs, EnqueueInsert(p) PROVE QueueInv'
  <2>1. /\ Insert(admitted[p]) /\ admitted[p] \in Jobs
        /\ UNCHANGED <<up, claim, purged, redelivered, stolen, solo>>
    BY <1>3, <1>0 DEF EnqueueInsert, history, TypeOK
  <2>2. LedgerInv'
    BY <2>1, <1>0, InsertKeepsClaims DEF LedgerInv, QueueInv, TypeOK, Ids
  <2>3. SoloIsOldest'
    <3>1. Live' = Live \cup {nextId} /\ nextId \notin solo /\ \A i \in Live : i < nextId
      BY <2>1, <1>0 DEF QueueInv, LedgerInv, Insert, TypeOK, Live, Pending, Processing, Rows, Ids
    <3>2. Live \subseteq Nat /\ nextId \in Nat
      BY <1>0 DEF TypeOK, Ids, Live, Pending, Processing, Rows
    <3>3. ASSUME NEW i \in solo' \cap Live', NEW k \in Live' PROVE i <= k
      <4>1. i \in solo \cap Live
        BY <3>1, <3>3, <2>1
      <4>2. CASE k \in Live
        BY <4>1, <4>2 DEF QueueInv, SoloIsOldest
      <4>3. CASE k = nextId
        <5>1. i \in Nat /\ nextId \in Nat /\ i < nextId
          BY <4>1, <3>1, <3>2
        <5> QED
          BY ONLY <5>1, <4>3
      <4> QED
        BY <3>1, <3>3, <4>2, <4>3
    <3> QED
      BY <3>3 DEF SoloIsOldest
  <2> QED
    BY <2>1, <2>2, <2>3, <1>0, InsertKeepsClaims DEF QueueInv
<1>4. ASSUME NEW p \in Procs, EnqueueRaise(p) PROVE QueueInv'
  BY <1>0, <1>4 DEF EnqueueRaise, QueueInv, LedgerInv, ExclusiveClaim, InFlightShielded,
       SoloIsOldest, table, history, Live, Pending, Processing, Rows
<1>5. ASSUME NEW p \in Procs, Purge(p) PROVE QueueInv'
  <2> USE <1>0, <1>5 DEF Purge, QueueInv, Pending, Processing, Rows, TypeOK, NoId
  <2>1. LedgerInv'
    <3>1. \A i \in purged' : status'[i] = "absent" /\ i < nextId'
      BY DEF LedgerInv, Live
    <3> QED
      BY <3>1 DEF LedgerInv
  <2>2. ExclusiveClaim'
    BY DEF ExclusiveClaim
  <2>3. InFlightShielded'
    BY DEF InFlightShielded
  <2>4. SoloIsOldest'
    BY DEF SoloIsOldest, Live
  <2> QED
    BY <2>1, <2>2, <2>3, <2>4
<1>6. ASSUME NEW p \in Procs, Start(p) PROVE QueueInv'
  <2> USE <1>0, <1>6 DEF Start, QueueInv, Pending, Processing, Rows, TypeOK, NoId
  <2>1. LedgerInv'
    BY DEF LedgerInv
  <2>2. ExclusiveClaim'
    BY DEF ExclusiveClaim
  <2>3. InFlightShielded'
    BY DEF InFlightShielded
  <2>4. SoloIsOldest'
    BY DEF SoloIsOldest, Live
  <2> QED
    BY <2>1, <2>2, <2>3, <2>4
<1>7. ASSUME NEW p \in Procs, Exit(p) PROVE QueueInv'
  <2> USE <1>0, <1>7 DEF Exit, QueueInv, table, history, TypeOK, NoId
  <2>1. LedgerInv'
    BY DEF LedgerInv
  <2>2. ExclusiveClaim'
    BY DEF ExclusiveClaim
  <2>3. InFlightShielded'
    BY DEF InFlightShielded
  <2>4. SoloIsOldest'
    BY DEF SoloIsOldest, Live, Pending, Processing, Rows
  <2> QED
    BY <2>1, <2>2, <2>3, <2>4
<1>8. ASSUME NEW w \in Workers, Dequeue(w) PROVE QueueInv'
  <2>1. PICK i \in Pending : MarkProcessing(i) /\ claim' = [claim EXCEPT ![w] = i]
    BY <1>8 DEF Dequeue
  <2> USE <1>0, <1>8, <2>1 DEF Dequeue, LockFree, MarkProcessing, QueueInv, history, TypeOK,
        Ids, NoId, Pending, Rows
  <2>2. LedgerInv'
    BY DEF LedgerInv, Live
  <2>3. ExclusiveClaim'
    \* A pending job that some worker already holds was stolen from it.
    BY DEF ExclusiveClaim, InFlightShielded
  <2>4. InFlightShielded'
    BY DEF InFlightShielded, LedgerInv
  <2>5. SoloIsOldest'
    BY DEF SoloIsOldest, Live, Processing
  <2> QED
    BY <2>2, <2>3, <2>4, <2>5
<1>9. ASSUME NEW w \in Workers, Complete(w) PROVE QueueInv'
  <2> USE <1>0, <1>9 DEF Complete, QueueInv, history, TypeOK, Ids, NoId
  <2>1. LedgerInv'
    BY DEF LedgerInv
  <2>2. ExclusiveClaim'
    BY DEF ExclusiveClaim
  <2>3. InFlightShielded'
    \* Another worker whose row this deletes holds a stolen job.
    BY DEF InFlightShielded, ExclusiveClaim
  <2>4. SoloIsOldest'
    BY DEF SoloIsOldest, Live, Pending, Processing, Rows
  <2> QED
    BY <2>1, <2>2, <2>3, <2>4
<1>10. ASSUME NEW w \in Workers, Forget(w) PROVE QueueInv'
  <2> USE <1>0, <1>10 DEF Forget, QueueInv, table, history, TypeOK, NoId
  <2>1. LedgerInv'
    BY DEF LedgerInv
  <2>2. ExclusiveClaim'
    BY DEF ExclusiveClaim
  <2>3. InFlightShielded'
    BY DEF InFlightShielded
  <2>4. SoloIsOldest'
    BY DEF SoloIsOldest, Live, Pending, Processing, Rows
  <2> QED
    BY <2>1, <2>2, <2>3, <2>4
<1>11. CASE UNCHANGED qvars
  BY <1>0, <1>11 DEF qvars, QueueInv, LedgerInv, ExclusiveClaim, InFlightShielded, SoloIsOldest,
       Live, Pending, Processing, Rows
<1> QED
  BY <1>1, <1>2, <1>3, <1>4, <1>5, <1>6, <1>7, <1>8, <1>9, <1>10, <1>11
     DEF Next, ProcNext, WorkerNext

\* The invariant holds in every reachable state.
THEOREM QueueInvariant == Spec => []QueueInv
  BY InitQueueInv, NextQueueInv, PTL DEF Spec

\* Ids are never handed out twice; only a running process holds a job.
THEOREM LedgerKept == Spec => []LedgerInv
<1>1. QueueInv => LedgerInv
  BY DEF QueueInv
<1> QED
  BY <1>1, QueueInvariant, PTL

\* No two workers hold one job, unless a start took it from the first.
THEOREM ClaimsExclusive == Spec => []ExclusiveClaim
<1>1. QueueInv => ExclusiveClaim
  BY DEF QueueInv
<1> QED
  BY <1>1, QueueInvariant, PTL

\* A job in a worker's hands keeps its row and survives every purge, unless a
\* start took it away.
THEOREM InFlightKept == Spec => []InFlightShielded
<1>1. QueueInv => InFlightShielded
  BY DEF QueueInv
<1> QED
  BY <1>1, QueueInvariant, PTL

\* A row of enqueue_if_idle is the oldest in the table as long as it is there.
THEOREM SoloAlone == Spec => []SoloIsOldest
<1>1. QueueInv => SoloIsOldest
  BY DEF QueueInv
<1> QED
  BY <1>1, QueueInvariant, PTL

-------------------------------------------------------------------------------
(* The limit with several processes                                          *)

Fresh == Pending \ redelivered
Busy  == {p \in Procs : admitted[p] # NoJob}

\* The sets whose sizes the limit is about are finite.
LEMMA FiniteRows ==
  ASSUME TypeOK
  PROVE  /\ IsFiniteSet(Pending) /\ IsFiniteSet(Fresh) /\ IsFiniteSet(Busy)
         /\ Cardinality(Pending) \in Nat /\ Cardinality(Fresh) \in Nat
         /\ Cardinality(Busy) \in Nat /\ Cardinality(Procs) \in Nat
         /\ Cardinality(Fresh) <= Cardinality(Pending)
         /\ Cardinality(Busy) <= Cardinality(Procs)
<1>1. IsFiniteSet(Ids)
  BY QueueAssumption, FS_Interval DEF QueueAssumption, Ids
<1>2. Pending \subseteq Ids /\ Fresh \subseteq Pending /\ Busy \subseteq Procs
  BY DEF Pending, Rows, Fresh, Busy
<1> QED
  BY <1>1, <1>2, QueueAssumption, FS_Subset, FS_CardinalityType DEF QueueAssumption

\* A step that lets nothing in keeps the bound.
LEMMA ShrinkKeepsBound ==
  ASSUME TypeOK, OvershootBound, Fresh' \subseteq Fresh, Busy' \subseteq Busy
  PROVE  OvershootBound'
<1>1. Cardinality(Fresh') <= Cardinality(Fresh) /\ Cardinality(Busy') <= Cardinality(Busy)
      /\ Cardinality(Fresh') \in Nat /\ Cardinality(Busy') \in Nat
  BY FiniteRows, FS_Subset, FS_CardinalityType
<1>2. MaxSize > 0 => Cardinality(Fresh) + Cardinality(Busy) <= MaxSize + Cardinality(Procs) - 1
  BY DEF OvershootBound, Fresh, Busy
<1>3. MaxSize > 0 => Cardinality(Fresh') + Cardinality(Busy') <= MaxSize + Cardinality(Procs) - 1
  BY <1>1, <1>2, FiniteRows, QueueAssumption DEF QueueAssumption
<1> QED
  BY <1>3 DEF OvershootBound, Fresh, Busy

\* Every critical section of the queue keeps the bound.
LEMMA NextBound == TypeOK /\ OvershootBound /\ [Next]_qvars => OvershootBound'
<1> SUFFICES ASSUME TypeOK, OvershootBound, [Next]_qvars PROVE OvershootBound'
  OBVIOUS
<1>0. TypeOK'
  BY NextType
<1> DEFINE room == MaxSize + Cardinality(Procs) - 1
<1>a. MaxSize \in Nat /\ IsFiniteSet(Procs)
  BY QueueAssumption DEF QueueAssumption
<1>b. (MaxSize > 0 => Cardinality(Fresh') + Cardinality(Busy') <= room) => OvershootBound'
  BY DEF OvershootBound, Fresh, Busy
<1>1. ASSUME NEW p \in Procs, NEW j \in Jobs, EnqueueCheck(p, j) PROVE OvershootBound'
  <2>1. ASSUME MaxSize > 0 PROVE Cardinality(Fresh) < MaxSize
    BY <1>1, <2>1, <1>a, FiniteRows DEF EnqueueCheck, HasRoom
  <2>2. Fresh' = Fresh
    BY <1>1 DEF EnqueueCheck, table, history, Fresh, Pending, Rows
  <2>3. Cardinality(Busy') \in Nat /\ Cardinality(Busy') <= Cardinality(Procs)
    <3>1. Busy' \subseteq Procs
      BY DEF Busy
    <3> QED
      BY <3>1, <1>a, FS_Subset, FS_CardinalityType
  <2> QED
    BY <2>1, <2>2, <2>3, <1>a, <1>b, FiniteRows
<1>2. ASSUME NEW p \in Procs, NEW j \in Jobs, EnqueueIfIdle(p, j) PROVE OvershootBound'
  <2>1. Fresh' \subseteq {nextId}
    BY <1>2 DEF EnqueueIfIdle, Insert, Idle, Live, Fresh, Pending, Rows, TypeOK
  <2>2. Cardinality(Fresh') \in Nat /\ Cardinality(Fresh') <= 1
    <3>1. IsFiniteSet({nextId}) /\ Cardinality({nextId}) = 1
      BY FS_Singleton
    <3>2. IsFiniteSet(Fresh') /\ Cardinality(Fresh') <= Cardinality({nextId})
      BY <2>1, <3>1, FS_Subset
    <3> QED
      BY <3>1, <3>2, FS_CardinalityType
  <2>3. Busy' \subseteq Procs \ {p}
    BY <1>2 DEF EnqueueIfIdle, LockFree, Busy
  <2>4. Cardinality(Busy') \in Nat /\ Cardinality(Busy') <= Cardinality(Procs) - 1
    <3>1. IsFiniteSet(Procs \ {p}) /\ Cardinality(Procs \ {p}) = Cardinality(Procs) - 1
      BY <1>a, FS_RemoveElement
    <3> QED
      BY <3>1, <2>3, FS_Subset, FS_CardinalityType
  <2> QED
    BY <2>2, <2>4, <1>a, <1>b, FiniteRows
<1>3. ASSUME NEW p \in Procs, EnqueueInsert(p) PROVE OvershootBound'
  <2>1. Fresh' \subseteq Fresh \cup {nextId}
    BY <1>3 DEF EnqueueInsert, Insert, history, Fresh, Pending, Rows, TypeOK
  <2>2. Cardinality(Fresh') \in Nat /\ Cardinality(Fresh') <= Cardinality(Fresh) + 1
    <3>0. IsFiniteSet(Fresh) /\ Cardinality(Fresh) \in Nat
      BY FiniteRows
    <3>1. IsFiniteSet(Fresh \cup {nextId}) /\ Cardinality(Fresh \cup {nextId}) <= Cardinality(Fresh) + 1
      <4>1. IsFiniteSet(Fresh \cup {nextId})
        BY <3>0, FS_AddElement, Zenon
      <4>2. Cardinality(Fresh \cup {nextId}) = IF nextId \in Fresh THEN Cardinality(Fresh)
                                               ELSE Cardinality(Fresh) + 1
        BY <3>0, FS_AddElement, Zenon
      <4> HIDE DEF TypeOK
      <4> QED
        BY <3>0, <4>1, <4>2
    <3>2. Cardinality(Fresh') <= Cardinality(Fresh \cup {nextId}) /\ IsFiniteSet(Fresh')
      BY <3>1, <2>1, FS_Subset
    <3>3. Cardinality(Fresh') \in Nat /\ Cardinality(Fresh \cup {nextId}) \in Nat
      BY <3>1, <3>2, FS_CardinalityType
    <3> QED
      BY <3>0, <3>1, <3>2, <3>3
  <2>3. Busy' = Busy \ {p} /\ p \in Busy
    BY <1>3 DEF EnqueueInsert, Busy, TypeOK
  <2>4. Cardinality(Busy') = Cardinality(Busy) - 1
    BY <2>3, FiniteRows, FS_RemoveElement
  <2>5. MaxSize > 0 => Cardinality(Fresh) + Cardinality(Busy) <= room
    BY DEF OvershootBound, Fresh, Busy
  <2> QED
    BY <2>2, <2>4, <2>5, <1>a, <1>b, FiniteRows
<1>4. ASSUME NEW p \in Procs, EnqueueRaise(p) PROVE OvershootBound'
  <2>1. Fresh' \subseteq Fresh /\ Busy' \subseteq Busy
    BY <1>4 DEF EnqueueRaise, table, history, Fresh, Busy, Pending, Rows, TypeOK
  <2> QED
    BY <2>1, ShrinkKeepsBound
<1>5. ASSUME NEW p \in Procs, Purge(p) PROVE OvershootBound'
  <2>1. Fresh' \subseteq Fresh /\ Busy' \subseteq Busy
    BY <1>5 DEF Purge, Fresh, Busy, Pending, Rows, TypeOK
  <2> QED
    BY <2>1, ShrinkKeepsBound
<1>6. ASSUME NEW p \in Procs, Start(p) PROVE OvershootBound'
  \* What a start returns to pending it also marks as redelivered.
  <2>1. Fresh' \subseteq Fresh /\ Busy' \subseteq Busy
    BY <1>6 DEF Start, Fresh, Busy, Pending, Processing, Rows, TypeOK
  <2> QED
    BY <2>1, ShrinkKeepsBound
<1>7. ASSUME NEW p \in Procs, Exit(p) PROVE OvershootBound'
  <2>1. Fresh' \subseteq Fresh /\ Busy' \subseteq Busy
    BY <1>7 DEF Exit, table, history, Fresh, Busy, Pending, Rows, TypeOK
  <2> QED
    BY <2>1, ShrinkKeepsBound
<1>8. ASSUME NEW w \in Workers, Dequeue(w) PROVE OvershootBound'
  <2>1. Fresh' \subseteq Fresh /\ Busy' \subseteq Busy
    BY <1>8 DEF Dequeue, MarkProcessing, history, Fresh, Busy, Pending, Rows, TypeOK
  <2> QED
    BY <2>1, ShrinkKeepsBound
<1>9. ASSUME NEW w \in Workers, Complete(w) PROVE OvershootBound'
  <2>1. Fresh' \subseteq Fresh /\ Busy' \subseteq Busy
    BY <1>9 DEF Complete, history, Fresh, Busy, Pending, Rows, TypeOK
  <2> QED
    BY <2>1, ShrinkKeepsBound
<1>10. ASSUME NEW w \in Workers, Forget(w) PROVE OvershootBound'
  <2>1. Fresh' \subseteq Fresh /\ Busy' \subseteq Busy
    BY <1>10 DEF Forget, table, history, Fresh, Busy, Pending, Rows
  <2> QED
    BY <2>1, ShrinkKeepsBound
<1>11. CASE UNCHANGED qvars
  BY <1>11 DEF qvars, OvershootBound, Pending, Rows
<1> QED
  BY <1>1, <1>2, <1>3, <1>4, <1>5, <1>6, <1>7, <1>8, <1>9, <1>10, <1>11
     DEF Next, ProcNext, WorkerNext

\* With any number of processes, requests push the queue at most one job per
\* process beyond the first over its limit.
THEOREM BoundedOvershoot == Spec => []OvershootBound
<1>1. Init => OvershootBound
  <2> SUFFICES ASSUME Init, MaxSize > 0
               PROVE Cardinality(Fresh) + Cardinality(Busy) <= MaxSize + Cardinality(Procs) - 1
    BY DEF OvershootBound, Fresh, Busy
  <2>1. Fresh = {} /\ Busy = {}
    BY DEF Init, Fresh, Busy, Pending, Rows
  <2>2. MaxSize \in Nat /\ Cardinality(Procs) \in Nat /\ Cardinality({}) = 0
    BY QueueAssumption, FS_EmptySet, FS_CardinalityType DEF QueueAssumption
  <2> QED
    BY <2>1, <2>2
<1> QED
  BY <1>1, NextBound, TypeCorrect, PTL DEF Spec

-------------------------------------------------------------------------------
(* One process: the contract of base.py                                      *)

OneProcess == \A p, q \in Procs : p = q

\* What one process may add to the invariant is inductive.
LEMMA NextSole ==
  ASSUME OneProcess, QueueInv, SoleInv, [Next]_qvars
  PROVE  SoleInv'
<1>0. TypeOK
  BY DEF QueueInv
<1> USE QueueAssumption DEF QueueAssumption, OneProcess
<1>1. ASSUME NEW p \in Procs, NEW j \in Jobs, EnqueueCheck(p, j) PROVE SoleInv'
  BY <1>0, <1>1 DEF EnqueueCheck, LockFree, SoleInv, table, history, HasRoom, Pending, Rows, TypeOK
<1>2. ASSUME NEW p \in Procs, NEW j \in Jobs, EnqueueIfIdle(p, j) PROVE SoleInv'
  BY <1>2 DEF EnqueueIfIdle, LockFree, SoleInv
<1>3. ASSUME NEW p \in Procs, EnqueueInsert(p) PROVE SoleInv'
  BY <1>0, <1>3 DEF EnqueueInsert, SoleInv, history, TypeOK
<1>4. ASSUME NEW p \in Procs, EnqueueRaise(p) PROVE SoleInv'
  BY <1>0, <1>4 DEF EnqueueRaise, SoleInv, history, TypeOK
<1>5. ASSUME NEW p \in Procs, Purge(p) PROVE SoleInv'
  BY <1>5 DEF Purge, LockFree, SoleInv
<1>6. ASSUME NEW p \in Procs, Start(p) PROVE SoleInv'
  \* The process was down: no worker holds a job, no request the lock.
  <2>1. \A w \in Workers : claim[w] = NoId
    BY <1>6 DEF Start, QueueInv, LedgerInv
  <2>2. stolen' = {}
    BY <1>6, <2>1 DEF Start, SoleInv, Ids, NoId, Processing, Rows
  <2> QED
    BY <1>6, <2>2 DEF Start, SoleInv
<1>7. ASSUME NEW p \in Procs, Exit(p) PROVE SoleInv'
  BY <1>0, <1>7 DEF Exit, SoleInv, history, TypeOK
<1>8. ASSUME NEW w \in Workers, Dequeue(w) PROVE SoleInv'
  BY <1>8 DEF Dequeue, LockFree, SoleInv, history
<1>9. ASSUME NEW w \in Workers, Complete(w) PROVE SoleInv'
  BY <1>9 DEF Complete, LockFree, SoleInv, history
<1>10. ASSUME NEW w \in Workers, Forget(w) PROVE SoleInv'
  BY <1>10 DEF Forget, SoleInv, table, history, HasRoom, Pending, Rows
<1>11. CASE UNCHANGED qvars
  BY <1>11 DEF qvars, SoleInv, HasRoom, Pending, Rows
<1> QED
  BY <1>1, <1>2, <1>3, <1>4, <1>5, <1>6, <1>7, <1>8, <1>9, <1>10, <1>11
     DEF Next, ProcNext, WorkerNext

\* With one process nothing is ever stolen and what was admitted fits.
THEOREM SoleInvariant ==
  ASSUME OneProcess PROVE Spec => [](QueueInv /\ SoleInv)
<1>1. Init => QueueInv /\ SoleInv
  BY InitQueueInv DEF Init, SoleInv
<1>2. QueueInv /\ SoleInv /\ [Next]_qvars => (QueueInv /\ SoleInv)'
  BY NextQueueInv, NextSole
<1> QED
  BY <1>1, <1>2, PTL DEF Spec

\* With one process no job has two handlers, whatever crashes and restarts.
THEOREM OneHandler == ASSUME OneProcess PROVE Spec => []OneHandlerPerJob
<1>1. QueueInv /\ SoleInv => OneHandlerPerJob
  BY DEF QueueInv, SoleInv, ExclusiveClaim, OneHandlerPerJob
<1> QED
  BY <1>1, SoleInvariant, PTL

\* With one process a purge never deletes a job that is being handled.
THEOREM PurgeShields == ASSUME OneProcess PROVE Spec => []PurgeSparesInFlight
<1>1. QueueInv /\ SoleInv => PurgeSparesInFlight
  BY DEF QueueInv, SoleInv, LedgerInv, InFlightShielded, PurgeSparesInFlight, TypeOK, Ids, NoId
<1> QED
  BY <1>1, SoleInvariant, PTL

\* With one process the limit is a limit.
THEOREM WithinLimit == ASSUME OneProcess PROVE Spec => []AdmittedWithinLimit
<1>1. Cardinality(Procs) \in 0..1
  <2>1. CASE Procs = {}
    BY <2>1, FS_EmptySet
  <2>2. CASE Procs # {}
    <3>1. PICK p \in Procs : TRUE
      BY <2>2
    <3>2. Procs = {p}
      BY <3>1 DEF OneProcess
    <3>3. Cardinality({p}) = 1
      BY FS_Singleton
    <3> QED
      BY <3>2, <3>3
  <2> QED
    BY <2>1, <2>2
<1>2. TypeOK /\ OvershootBound => AdmittedWithinLimit
  <2> SUFFICES ASSUME TypeOK, OvershootBound, MaxSize > 0
               PROVE  Cardinality(Pending \ redelivered) <= MaxSize
    BY DEF AdmittedWithinLimit
  <2>1. Cardinality(Fresh) \in Nat /\ Cardinality(Busy) \in Nat
    BY FiniteRows
  <2>2. Cardinality(Busy) <= 1
    BY <1>1, FiniteRows
  <2> QED
    BY <2>1, <2>2, <1>1, QueueAssumption DEF OvershootBound, QueueAssumption, Fresh, Busy
<1> QED
  BY <1>2, TypeCorrect, BoundedOvershoot, PTL

\* How the life of each job looks before and after a step.
view == [i \in Ids |-> Abs(i)]

\* A row is new to the contract exactly from the counter on.
LEMMA NewRows ==
  ASSUME QueueInv
  PROVE  /\ JQ!In("new") = {i \in Ids : nextId <= i}
         /\ JQ!In("pending") = Pending
         /\ JQ!In("inflight") = Processing
  BY DEF QueueInv, LedgerInv, TypeOK, JQ!In, Abs, Pending, Processing, Live, Rows, Ids

\* An insert is the move of the next id from new to pending.
LEMMA InsertMoves ==
  ASSUME QueueInv, NEW j \in Jobs, Insert(j), purged' = purged
  PROVE  /\ nextId \in Ids
         /\ JQ!Oldest(nextId, JQ!In("new"))
         /\ JQ!Move({nextId}, "pending")
<1>1. nextId \in Ids /\ JQ!Oldest(nextId, JQ!In("new"))
  BY NewRows DEF Insert, JQ!Oldest, Ids
<1>2. \A i \in Ids : Abs(i)' = IF i = nextId THEN "pending" ELSE Abs(i)
  BY <1>1 DEF Insert, Abs, QueueInv, TypeOK, LedgerInv, Ids
<1> QED
  BY <1>1, <1>2 DEF JQ!Move

\* At most one process is up, so SKIP LOCKED skips nothing either.
LEMMA TakesOldest ==
  ASSUME OneProcess, TypeOK, NEW i \in Pending, Selectable(i)
  PROVE  \A k \in Pending : i <= k
<1> DEFINE older == {k \in Pending : k < i}
<1>1. IsFiniteSet(older) /\ Cardinality(older) \in Nat
  BY FiniteRows, FS_Subset, FS_CardinalityType
<1>2. up = {} \/ \E p \in Procs : up = {p}
  BY DEF TypeOK, OneProcess
<1>3. Cardinality(up) <= 1 /\ Cardinality(up) \in Nat
  <2>1. CASE up = {}
    BY <2>1, FS_EmptySet
  <2>2. CASE \E p \in Procs : up = {p}
    <3>1. PICK p \in Procs : up = {p}
      BY <2>2
    <3>2. Cardinality({p}) = 1
      BY FS_Singleton
    <3> QED
      BY <3>1, <3>2
  <2> QED
    BY <1>2, <2>1, <2>2
<1>4. older = {}
  BY <1>1, <1>3, FS_EmptySet, QueueAssumption DEF Selectable, QueueAssumption
<1>5. \A k \in Pending : ~ (k < i)
  BY <1>4, Zenon
<1>6. i \in Nat /\ \A k \in Pending : k \in Nat
  BY DEF Pending, Rows, Ids
<1> QED
  BY <1>5, <1>6

\* With one process, every critical section is a step of the contract or
\* leaves the life of every job as it was.
LEMMA StepImplements ==
  ASSUME OneProcess, QueueInv, SoleInv, [Next]_qvars
  PROVE  JQ!Next \/ UNCHANGED view
<1>0. TypeOK
  BY DEF QueueInv
<1> USE QueueAssumption DEF QueueAssumption, OneProcess
<1>1. ASSUME NEW p \in Procs, NEW j \in Jobs, EnqueueCheck(p, j) PROVE UNCHANGED view
  BY <1>1 DEF EnqueueCheck, table, history, view, Abs
<1>2. ASSUME NEW p \in Procs, NEW j \in Jobs, EnqueueIfIdle(p, j) PROVE JQ!EnqueueIfIdle
  <2>1. Insert(j) /\ purged' = purged /\ Pending \cup Processing = {}
    BY <1>2 DEF EnqueueIfIdle, Idle, Live
  <2> QED
    BY <2>1, InsertMoves, NewRows DEF JQ!EnqueueIfIdle
<1>3. ASSUME NEW p \in Procs, EnqueueInsert(p) PROVE JQ!Enqueue
  <2>1. Insert(admitted[p]) /\ admitted[p] \in Jobs /\ purged' = purged
    BY <1>0, <1>3 DEF EnqueueInsert, history, TypeOK
  <2>2. HasRoom
    BY <1>3 DEF EnqueueInsert, SoleInv
  <2>3. JQ!Cardinality(Pending) = Cardinality(Pending)
    BY DEF JQ!Cardinality, Cardinality
  <2> QED
    BY <2>1, <2>2, <2>3, InsertMoves, NewRows DEF JQ!Enqueue, HasRoom
<1>4. ASSUME NEW p \in Procs, EnqueueRaise(p) PROVE UNCHANGED view
  BY <1>4 DEF EnqueueRaise, table, history, view, Abs
<1>5. ASSUME NEW p \in Procs, Purge(p) PROVE JQ!Purge
  <2>1. \A i \in Ids : Abs(i)' = IF i \in Pending THEN "purged" ELSE Abs(i)
    BY <1>0, <1>5 DEF Purge, Abs, QueueInv, LedgerInv, Pending, Rows, TypeOK
  <2> QED
    BY <2>1, NewRows DEF JQ!Purge, JQ!Move
<1>6. ASSUME NEW p \in Procs, Start(p) PROVE JQ!Recover
  <2>1. \A i \in Ids : Abs(i)' = IF i \in Processing THEN "pending" ELSE Abs(i)
    BY <1>0, <1>6 DEF Start, Abs, Processing, Rows, TypeOK
  <2> QED
    BY <2>1, NewRows DEF JQ!Recover, JQ!Move
<1>7. ASSUME NEW p \in Procs, Exit(p) PROVE UNCHANGED view
  BY <1>7 DEF Exit, table, history, view, Abs
<1>8. ASSUME NEW w \in Workers, Dequeue(w) PROVE JQ!Dequeue
  <2>1. PICK i \in Pending : Selectable(i) /\ MarkProcessing(i)
    BY <1>8 DEF Dequeue
  <2>2. i \in Ids
    BY DEF Pending, Rows
  <2>3. \A k \in Pending : i <= k
    BY <1>0, <2>1, TakesOldest
  <2>4. \A k \in Ids : Abs(k)' = IF k = i THEN "inflight" ELSE Abs(k)
    BY <1>0, <1>8, <2>1, <2>2 DEF Dequeue, MarkProcessing, Abs, history, TypeOK
  <2>5. JQ!Oldest(i, JQ!In("pending")) /\ JQ!Move({i}, "inflight")
    BY <2>1, <2>3, <2>4, NewRows DEF JQ!Oldest, JQ!Move
  <2> QED
    BY <2>2, <2>5 DEF JQ!Dequeue
<1>9. ASSUME NEW w \in Workers, Complete(w) PROVE JQ!Complete
  <2>1. /\ claim[w] \in Ids /\ status[claim[w]] = "processing"
        /\ claim[w] \notin purged /\ claim[w] < nextId
    BY <1>0, <1>9 DEF Complete, QueueInv, LedgerInv, InFlightShielded, SoleInv, TypeOK, NoId
  <2>2. \A i \in Ids : Abs(i)' = IF i = claim[w] THEN "done" ELSE Abs(i)
    BY <1>0, <1>9, <2>1 DEF Complete, Abs, history, TypeOK
  <2>3. claim[w] \in JQ!In("inflight") /\ JQ!Move({claim[w]}, "done")
    BY <2>1, <2>2, NewRows DEF JQ!Move, Processing, Rows
  <2> QED
    BY <2>3 DEF JQ!Complete
<1>10. ASSUME NEW w \in Workers, Forget(w) PROVE UNCHANGED view
  BY <1>10 DEF Forget, table, history, view, Abs
<1>11. CASE UNCHANGED qvars
  BY <1>11 DEF qvars, view, Abs
<1> QED
  BY <1>1, <1>2, <1>3, <1>4, <1>5, <1>6, <1>7, <1>8, <1>9, <1>10, <1>11
     DEF Next, ProcNext, WorkerNext, JQ!Next

\* With one process the table implements the queue that base.py describes.
THEOREM ImplementsContract == ASSUME OneProcess PROVE Spec => Contract
<1>1. Init => JQ!Init
  BY DEF Init, JQ!Init, Abs, Ids
<1>2. QueueInv /\ SoleInv /\ [Next]_qvars => [JQ!Next]_view
  BY StepImplements
<1>3. Spec => JQ!Init /\ [][JQ!Next]_view
  BY <1>1, <1>2, SoleInvariant, PTL DEF Spec
<1> QED
  BY <1>3, PTL DEF Contract, JQ!Spec, view

-------------------------------------------------------------------------------
(* position(): oldest rows and ranks *)

LEMMA MinIs ==
  ASSUME NEW S \in SUBSET Nat, NEW i \in S, \A k \in S : i <= k
  PROVE  Min(S) = i
<1>1. Min(S) \in S /\ \A k \in S : Min(S) <= k
  <2> DEFINE P(x) == x \in S /\ \A k \in S : x <= k
  <2>1. P(i)
    OBVIOUS
  <2>2. P(CHOOSE x : P(x))
    <3> HIDE DEF P
    <3> QED
      BY <2>1
  <2> QED
    BY <2>2 DEF Min
<1> HIDE DEF Min
<1> DEFINE m == Min(S)
<1>2. m \in Nat /\ i \in Nat /\ m <= i /\ i <= m
  BY <1>1
<1> QED
  BY <1>2

LEMMA SomeMin ==
  ASSUME NEW S \in SUBSET Nat, S # {}, IsFiniteSet(S)
  PROVE  Min(S) \in S /\ \A k \in S : Min(S) <= k
<1> DEFINE Below(x) == {y \in S : y < x}
           Belows   == {Below(x) : x \in S}
<1>1. IsWellFoundedOn(StrictSubsetOrdering(S), SUBSET S)
  BY FS_StrictSubsetOrderingWellFounded, FS_FiniteSubsetsOfFinite
<1>2. PICK B \in Belows : \A C \in Belows : <<C, B>> \notin StrictSubsetOrdering(S)
  <2>1. Belows \subseteq SUBSET S /\ Belows # {}
    OBVIOUS
  <2> HIDE DEF Belows
  <2> QED
    BY <1>1, <2>1, WFMin
<1>3. PICK i \in S : B = Below(i)
  OBVIOUS
<1>4. ASSUME NEW k \in S PROVE i <= k
  <2>1. SUFFICES ASSUME k < i PROVE FALSE
    BY <1>4
  <2>2. Below(k) \subseteq B /\ k \in B /\ k \notin Below(k) /\ B \subseteq S
    <3>1. k \in Nat /\ i \in Nat /\ \A y \in S : y \in Nat
      OBVIOUS
    <3>2. \A y \in S : y < k => y < i
      BY <2>1, <3>1
    <3>3. ~ (k < k)
      BY <3>1
    <3> QED
      BY <1>3, <2>1, <3>2, <3>3, Zenon
  <2>3. <<Below(k), B>> \in StrictSubsetOrdering(S)
    BY <2>2 DEF StrictSubsetOrdering
  <2> QED
    BY <1>2, <2>3
<1> QED
  BY <1>4, MinIs

\* While a photo's oldest row is pending, its rank is what the second SELECT
\* counts; when it is processing, the photo's position is 0.
RankIsCounted ==
  \A i \in Live :
    (\A k \in Live : job[k] = job[i] => i <= k)
      => /\ i \in Pending => Position(job[i]) = UpTo(i)
         /\ i \in Processing => Position(job[i]) = 0

LEMMA OldestRank == TypeOK => RankIsCounted
<1> SUFFICES ASSUME TypeOK, NEW i \in Live,
                    \A k \in Live : job[k] = job[i] => i <= k
             PROVE  /\ i \in Pending => Position(job[i]) = UpTo(i)
                    /\ i \in Processing => Position(job[i]) = 0
  BY DEF RankIsCounted
<1> DEFINE rows  == {k \in Live : job[k] = job[i]}
           older == {k \in Pending : k < i}
<1>1. Live \subseteq Nat /\ Pending \subseteq Nat /\ i \in Nat /\ Pending \cap Processing = {}
  BY DEF Live, Pending, Processing, Rows, Ids
<1>2. Min(rows) = i /\ rows # {}
  <2>1. rows \in SUBSET Nat /\ i \in rows /\ \A k \in rows : i <= k
    BY <1>1
  <2> HIDE DEF rows
  <2> QED
    BY <2>1, MinIs
<1>3. CASE i \in Processing
  BY <1>1, <1>2, <1>3 DEF Position
<1>4. CASE i \in Pending
  <2>1. Position(job[i]) = 1 + Cardinality(older)
    BY <1>1, <1>2, <1>4 DEF Position
  <2>2. IsFiniteSet(older) /\ i \notin older
    BY <1>1, FiniteRows, FS_Subset
  <2>3. older \cup {i} = {k \in Pending : k <= i}
    <3>1. ASSUME NEW k PROVE k \in older \cup {i} <=> k \in {n \in Pending : n <= i}
      <4>1. \A n \in Pending : n <= i <=> n < i \/ n = i
        BY <1>1
      <4> QED
        BY <1>4, <4>1, Zenon
    <3> QED
      BY <3>1
  <2>4. UpTo(i) = Cardinality(older \cup {i})
    BY <2>3 DEF UpTo
  <2>5. Cardinality(older \cup {i}) = Cardinality(older) + 1 /\ Cardinality(older) \in Nat
    <3> HIDE DEF older
    <3> QED
      BY <2>2, FS_AddElement, FS_CardinalityType
  <2>6. Position(job[i]) = UpTo(i)
    <3> HIDE DEF older
    <3> QED
      BY <2>1, <2>4, <2>5
  <2> QED
    BY <1>1, <1>4, <2>6
<1> QED
  BY <1>3, <1>4 DEF Live

LEMMA OldestRankNext == TypeOK' => RankIsCounted'
  BY OldestRank, PTL

-------------------------------------------------------------------------------
(* position(): the steps                                                     *)

\* What a step of the queue may do to rows that are in the table, while the
\* one process is running: nothing becomes pending again, only the oldest
\* pending row is taken, and a purge deletes all of them.
LEMMA RowsMove ==
  ASSUME OneProcess, QueueInv, SoleInv, Next, NEW p \in up, p \in up'
  PROVE  /\ nextId <= nextId' /\ purged \subseteq purged'
         /\ \A k \in Live' : k \in Live \/ nextId <= k
         /\ \A k \in Pending' : k \in Pending \/ nextId <= k
         /\ \A k \in Ids : k < nextId => job'[k] = job[k]
         /\ \A k \in Pending : \/ k \in Pending'
                               \/ k \in Processing' /\ \A n \in Pending : k <= n
                               \/ k \in purged' /\ Pending' = {}
<1>0. TypeOK /\ nextId \in Nat
  BY QueueAssumption DEF QueueInv, TypeOK, QueueAssumption
<1>1. ASSUME table' = table, purged \subseteq purged'
      PROVE  /\ nextId <= nextId'
             /\ \A k \in Live' : k \in Live
             /\ \A k \in Pending' : k \in Pending
             /\ \A k \in Ids : job'[k] = job[k]
             /\ \A k \in Pending : k \in Pending'
  BY <1>0, <1>1 DEF table, Live, Pending, Processing, Rows
<1>2. ASSUME NEW j \in Jobs, Insert(j), purged' = purged
      PROVE  /\ nextId <= nextId'
             /\ \A k \in Live' : k \in Live \/ nextId <= k
             /\ \A k \in Pending' : k \in Pending \/ nextId <= k
             /\ \A k \in Ids : k < nextId => job'[k] = job[k]
             /\ \A k \in Pending : k \in Pending'
  BY <1>0, <1>2 DEF Insert, TypeOK, Live, Pending, Processing, Rows, Ids
<1>3. CASE \E q \in Procs : (\E j \in Jobs : EnqueueCheck(q, j)) \/ EnqueueRaise(q) \/ Exit(q)
  <2>1. table' = table /\ purged' = purged
    BY <1>3 DEF EnqueueCheck, EnqueueRaise, Exit, history
  <2> QED
    BY <1>1, <2>1
<1>4. CASE \E q \in Procs : \E j \in Jobs : EnqueueIfIdle(q, j)
  <2>1. PICK j \in Jobs : Insert(j) /\ purged' = purged
    BY <1>4 DEF EnqueueIfIdle
  <2> QED
    BY <1>2, <2>1
<1>5. CASE \E q \in Procs : EnqueueInsert(q)
  <2>1. PICK j \in Jobs : Insert(j) /\ purged' = purged
    BY <1>0, <1>5 DEF EnqueueInsert, history, TypeOK
  <2> QED
    BY <1>2, <2>1
<1>6. CASE \E q \in Procs : Purge(q)
  <2>1. /\ purged' = purged \cup Pending /\ nextId' = nextId /\ job' = job
        /\ status' = [k \in Ids |-> IF k \in Pending THEN "absent" ELSE status[k]]
    BY <1>6 DEF Purge
  <2>2. Pending' = {} /\ Live' \subseteq Live
    BY <2>1 DEF Live, Pending, Processing, Rows
  <2> QED
    BY <1>0, <2>1, <2>2
<1>7. CASE \E q \in Procs : Start(q)
  BY <1>0, <1>7 DEF Start, TypeOK, OneProcess
<1>8. CASE \E w \in Workers : Dequeue(w)
  <2>1. PICK i \in Pending : Selectable(i) /\ status' = [status EXCEPT ![i] = "processing"]
    BY <1>8 DEF Dequeue, MarkProcessing
  <2>2. \A n \in Pending : i <= n
    BY <1>0, <2>1, TakesOldest
  <2>3. job' = job /\ nextId' = nextId /\ purged' = purged
    BY <1>8 DEF Dequeue, history
  <2>4. Live' = Live /\ Pending' = Pending \ {i} /\ i \in Processing'
    BY <1>0, <2>1 DEF Live, Pending, Processing, Rows, TypeOK
  <2> QED
    BY <1>0, <2>2, <2>3, <2>4
<1>9. CASE \E w \in Workers : Complete(w)
  <2>1. PICK w \in Workers : Complete(w)
    BY <1>9
  <2>2. claim[w] \in Processing /\ status' = [status EXCEPT ![claim[w]] = "absent"]
    BY <1>0, <2>1 DEF Complete, QueueInv, SoleInv, InFlightShielded, TypeOK, Processing, Rows, NoId
  <2>3. job' = job /\ nextId' = nextId /\ purged' = purged
    BY <2>1 DEF Complete, history
  <2>4. Live' \subseteq Live /\ Pending' = Pending
    BY <1>0, <2>2 DEF Live, Pending, Processing, Rows, TypeOK
  <2> QED
    BY <1>0, <2>3, <2>4
<1>10. CASE \E w \in Workers : Forget(w)
  <2>1. table' = table /\ purged' = purged
    BY <1>10 DEF Forget, history
  <2> QED
    BY <1>1, <2>1
<1> QED
  BY <1>3, <1>4, <1>5, <1>6, <1>7, <1>8, <1>9, <1>10 DEF Next, ProcNext, WorkerNext

\* A step of the queue leaves a call with a right answer.
LEMMA QueueStepKeepsRanks ==
  ASSUME OneProcess, QueueInv, SoleInv, PositionInv, QueueStep
  PROVE  PositionInv'
<1>1. found' \in [Procs -> Ids \cup {NoId}] /\ DOMAIN truths' = Procs
  BY DEF QueueStep, PositionInv
<1>2. ASSUME NEW p \in Procs, NEW i, found'[p] = i, i # NoId PROVE RankInv(p, i)'
  <2>1. /\ p \in up' /\ found[p] = i
        /\ truths'[p] = truths[p] \cup {Position(job[i])'}
    BY <1>2 DEF QueueStep
  <2>2. RankInv(p, i) /\ i \in Ids
    BY <1>2, <2>1 DEF PositionInv
  <2>3. /\ p \in up /\ i < nextId
        /\ \A k \in Pending : k < i => i \in Pending
        /\ i \in Pending => \A k \in Live : job[k] = job[i] => i <= k
        /\ i \notin Pending => i \in purged \/ 0 \in truths[p]
    BY <2>2 DEF RankInv
  <2>4. /\ nextId <= nextId' /\ purged \subseteq purged'
        /\ \A k \in Live' : k \in Live \/ nextId <= k
        /\ \A k \in Pending' : k \in Pending \/ nextId <= k
        /\ \A k \in Ids : k < nextId => job'[k] = job[k]
        /\ \A k \in Pending : \/ k \in Pending'
                              \/ k \in Processing' /\ \A n \in Pending : k <= n
                              \/ k \in purged' /\ Pending' = {}
    BY <2>1, <2>3, RowsMove DEF QueueStep
  <2>5. /\ nextId \in Nat /\ nextId' \in Nat /\ i \in Nat
        /\ TypeOK' /\ \A k \in Pending' : k \in Nat
        /\ \A k \in Live' : k \in Ids /\ k \in Nat
        /\ \A k \in Pending : k \in Nat
    <3>1. TypeOK'
      BY NextType DEF QueueInv, QueueStep
    <3> QED
      BY <2>2, <3>1, QueueAssumption
         DEF QueueAssumption, QueueInv, TypeOK, Live, Pending, Processing, Rows, Ids
  <2>6. i \in Pending' => i \in Pending
    BY <2>3, <2>4, <2>5
  <2>7. p \in up' /\ i < nextId'
    BY <2>1, <2>3, <2>4, <2>5
  <2>8. ASSUME NEW k \in Pending', k < i PROVE i \in Pending'
    <3>1. k \in Pending /\ i \in Pending /\ k \in Nat
      BY <2>3, <2>4, <2>5, <2>8
    <3>2. ~ (i <= k)
      BY <2>5, <2>8, <3>1
    <3> QED
      BY <2>4, <2>8, <3>1, <3>2
  <2>9. ASSUME i \in Pending, NEW k \in Live', job'[k] = job'[i] PROVE i <= k
    <3>1. CASE k \in Live
      <4>1. k \in Ids /\ k < nextId
        BY <2>5, <3>1 DEF QueueInv, TypeOK
      <4> QED
        BY <2>2, <2>3, <2>4, <2>9, <3>1, <4>1
    <3>2. CASE nextId <= k
      BY <2>3, <2>5, <3>2
    <3> QED
      BY <2>4, <3>1, <3>2
  <2>10. RankIsCounted'
    BY <2>5, OldestRankNext
  <2>11. i \in Pending' => UpTo(i)' \in truths'[p]
    <3>1. i \in Pending' => Position(job[i])' = UpTo(i)'
      BY <2>6, <2>9, <2>10 DEF RankIsCounted, Live
    <3> QED
      BY <2>1, <3>1
  <2>12. i \notin Pending' => i \in purged' \/ 0 \in truths'[p]
    <3>1. CASE i \notin Pending
      BY <2>1, <2>3, <2>4, <3>1
    <3>2. CASE i \in Pending /\ i \in Processing'
      <4>1. i \in Live'
        BY <3>2 DEF Live
      <4>2. Position(job[i])' = 0
        BY <2>9, <2>10, <3>2, <4>1 DEF RankIsCounted
      <4> QED
        BY <2>1, <4>2
    <3> QED
      BY <2>4, <3>1, <3>2
  <2> QED
    BY <2>1, <2>6, <2>7, <2>8, <2>9, <2>11, <2>12 DEF RankInv
<1> QED
  BY <1>1, <1>2 DEF PositionInv, RankInv

\* The first SELECT finds the photo's oldest row, and its rank.
LEMMA LookKeepsRanks ==
  ASSUME QueueInv, PositionInv, NEW p \in Procs, NEW j \in Jobs, Look(p, j)
  PROVE  PositionInv'
<1> DEFINE rows == {k \in Live : job[k] = j}
<1> PICK i : i = Min(rows)
  OBVIOUS
<1>0. TypeOK
  BY DEF QueueInv
<1>1. /\ p \in up /\ Position(j) \notin {None, 0}
      /\ found' = [found EXCEPT ![p] = i] /\ truths' = [truths EXCEPT ![p] = {Position(j)}]
      /\ UNCHANGED <<status, job, nextId, up, purged>>
  BY DEF Look, qvars
<1>2. rows \in SUBSET Nat /\ IsFiniteSet(rows) /\ rows # {}
  <2>1. Ids \subseteq Nat /\ IsFiniteSet(Ids)
    BY QueueAssumption, FS_Interval DEF QueueAssumption, Ids
  <2>2. rows \subseteq Ids
    BY DEF Live, Pending, Processing, Rows
  <2>3. rows # {}
    BY <1>1 DEF Position
  <2> QED
    BY <2>1, <2>2, <2>3, FS_Subset
<1>3. i \in rows /\ \A k \in rows : i <= k
  <2> HIDE DEF rows
  <2> QED
    BY <1>2, SomeMin
<1>4. i \notin Processing
  BY <1>1, <1>2 DEF Position
<1>5. /\ i \in Pending /\ job[i] = j /\ i \in Ids /\ i < nextId
      /\ \A k \in Live : job[k] = job[i] => i <= k
  BY <1>0, <1>3, <1>4 DEF Live, Pending, Rows, TypeOK
<1>6. Position(j) = UpTo(i)
  BY <1>0, <1>5, OldestRank DEF RankIsCounted, Live
<1>7. Pending' = Pending /\ Live' = Live
  BY <1>1 DEF Pending, Processing, Live, Rows
<1>8. /\ found' \in [Procs -> Ids \cup {NoId}] /\ DOMAIN truths' = Procs
      /\ found'[p] = i /\ truths'[p] = {Position(j)}
      /\ \A q \in Procs \ {p} : found'[q] = found[q] /\ truths'[q] = truths[q]
  BY <1>1, <1>5 DEF PositionInv
<1>9. RankInv(p, i)'
  BY <1>1, <1>5, <1>6, <1>7, <1>8 DEF RankInv, UpTo
<1>10. ASSUME NEW q \in Procs \ {p}, found[q] # NoId PROVE RankInv(q, found[q])'
  BY <1>1, <1>7, <1>8, <1>10 DEF PositionInv, RankInv, UpTo
<1> QED
  BY <1>8, <1>9, <1>10 DEF PositionInv, RankInv

\* Each step keeps the invariant.
LEMMA NextRanks ==
  ASSUME OneProcess, QueueInv, SoleInv, PositionInv, [PNext]_pvars
  PROVE  PositionInv'
<1>1. CASE QueueStep
  BY <1>1, QueueStepKeepsRanks
<1>2. ASSUME NEW p \in Procs, NEW j \in Jobs, Look(p, j) PROVE PositionInv'
  BY <1>2, LookKeepsRanks
<1>3. ASSUME NEW p \in Procs, Answer(p) PROVE PositionInv'
  <2>1. /\ UNCHANGED <<status, job, nextId, up, purged>>
        /\ found' = [found EXCEPT ![p] = NoId] /\ truths' = [truths EXCEPT ![p] = {}]
    BY <1>3 DEF Answer, qvars
  <2>2. Pending' = Pending /\ Live' = Live
    BY <2>1 DEF Pending, Processing, Live, Rows
  <2>3. /\ found' \in [Procs -> Ids \cup {NoId}] /\ DOMAIN truths' = Procs /\ found'[p] = NoId
        /\ \A q \in Procs \ {p} : found'[q] = found[q] /\ truths'[q] = truths[q]
    BY <2>1 DEF PositionInv
  <2>4. ASSUME NEW q \in Procs \ {p}, found[q] # NoId PROVE RankInv(q, found[q])'
    BY <2>1, <2>2, <2>3, <2>4 DEF PositionInv, RankInv, UpTo
  <2> QED
    BY <2>3, <2>4 DEF PositionInv, RankInv
<1>4. CASE UNCHANGED pvars
  <2>1. UNCHANGED <<status, job, nextId, up, purged, found, truths>>
    BY <1>4 DEF pvars, qvars
  <2>2. Pending' = Pending /\ Live' = Live
    BY <2>1 DEF Pending, Processing, Live, Rows
  <2> QED
    BY <2>1, <2>2 DEF PositionInv, RankInv, UpTo
<1> QED
  BY <1>1, <1>2, <1>3, <1>4 DEF PNext

\* While the row is there its rank is right; when nothing older is pending
\* the count is 0.
LEMMA RankWasTrue == TypeOK /\ PositionInv => PositionWasTrue
<1> SUFFICES ASSUME TypeOK, PositionInv, NEW p \in Procs, found[p] # NoId
             PROVE  UpTo(found[p]) \in truths[p] \cup (IF found[p] \in purged THEN {0} ELSE {})
  BY DEF PositionWasTrue
<1> DEFINE i == found[p]
<1>1. RankInv(p, i) /\ i \in Ids
  BY DEF PositionInv
<1>2. CASE i \in Pending
  BY <1>1, <1>2 DEF RankInv
<1>3. CASE i \notin Pending
  <2>1. \A k \in Pending : ~ (k <= i)
    <3>1. ASSUME NEW k \in Pending, k <= i PROVE FALSE
      <4>1. k \in Nat /\ i \in Nat /\ k # i
        BY <1>1, <1>3 DEF Pending, Rows, Ids
      <4>2. k < i
        BY <3>1, <4>1
      <4> QED
        BY <1>1, <1>3, <4>2 DEF RankInv
    <3> QED
      BY <3>1
  <2>2. {k \in Pending : k <= i} = {}
    BY <2>1, Zenon
  <2>3. UpTo(i) = 0
    BY <2>2, FS_EmptySet DEF UpTo
  <2> QED
    BY <1>1, <1>3, <2>3 DEF RankInv
<1> QED
  BY <1>2, <1>3

\* Each step of position()'s world is one of the queue's, or none.
LEMMA PositionRefines == PSpec => Spec
<1>1. PInit => Init
  BY DEF PInit
<1>2. [PNext]_pvars => [Next]_qvars
  BY DEF PNext, QueueStep, Look, Answer, pvars
<1> QED
  BY <1>1, <1>2, PTL DEF PSpec, Spec

\* With one process: whatever is inserted, taken, completed or purged between
\* the two SELECTs, the count answered was the photo's position at some
\* moment of the call, or a purge has deleted its job and the answer is 0.
THEOREM PositionTrue == ASSUME OneProcess PROVE PSpec => []PositionWasTrue
<1>1. PInit => PositionInv
  BY DEF PInit, PositionInv, NoId
<1>2. QueueInv /\ SoleInv /\ PositionInv /\ [PNext]_pvars => PositionInv'
  BY NextRanks
<1>3. QueueInv /\ PositionInv => PositionWasTrue
  BY RankWasTrue DEF QueueInv
<1>4. Spec => [](QueueInv /\ SoleInv)
  BY SoleInvariant
<1> QED
  BY <1>1, <1>2, <1>3, <1>4, PositionRefines, PTL DEF PSpec

\* position() changes nothing: the queue with it implements base.py's contract.
THEOREM PositionKeepsContract == ASSUME OneProcess PROVE PSpec => Contract
  BY PositionRefines, ImplementsContract, PTL
===============================================================================
