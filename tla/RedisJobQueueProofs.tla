--------------------------- MODULE RedisJobQueueProofs ---------------------------
(***************************************************************************)
(* What the Redis queue keeps to, and what it gives away, for any number   *)
(* of processes, ids, crashes and lost replies.                            *)
(***************************************************************************)
EXTENDS RedisJobQueue, FiniteSetTheorems, SequenceTheorems, TLAPS

-------------------------------------------------------------------------------
(* The list, hands and claims *)

LEMMA Members ==
  ASSUME NEW i
  PROVE  /\ i \in Pending <=> \E k \in DOMAIN jobs : jobs[k] = i
         /\ i \in Pending' <=> \E k \in DOMAIN jobs' : jobs'[k] = i
         /\ i \in Hands <=> i # NoId /\ \E p \in Procs : hand[p] = i
         /\ i \in Hands' <=> i # NoId /\ \E p \in Procs : hand'[p] = i
         /\ i \in Claims <=> i # NoId /\ \E p \in Procs : claim[p] = i
         /\ i \in Claims' <=> i # NoId /\ \E p \in Procs : claim'[p] = i
  BY DEF Pending, ToSet, Hands, Claims

\* RPUSH adds one id at the end.
LEMMA PushedLast ==
  ASSUME jobs \in Seq(Ids), NEW i \in Ids, jobs' = Append(jobs, i)
  PROVE  /\ jobs' \in Seq(Ids)
         /\ Len(jobs) \in Nat /\ DOMAIN jobs = 1..Len(jobs)
         /\ DOMAIN jobs' = 1..(Len(jobs) + 1)
         /\ \A k \in DOMAIN jobs : jobs'[k] = jobs[k]
         /\ jobs'[Len(jobs) + 1] = i
         /\ Pending' = Pending \cup {i}
<1>1. /\ jobs' \in Seq(Ids) /\ Len(jobs') = Len(jobs) + 1
      /\ \A k \in 1..Len(jobs) : jobs'[k] = jobs[k]
      /\ jobs'[Len(jobs) + 1] = i
  BY AppendProperties
<1>2. Len(jobs) \in Nat /\ DOMAIN jobs = 1..Len(jobs) /\ DOMAIN jobs' = 1..Len(jobs')
  BY <1>1, LenProperties, Zenon
<1>3. DOMAIN jobs' = 1..(Len(jobs) + 1)
  BY <1>1, <1>2
<1>4. \A k : k \in DOMAIN jobs' <=> k \in DOMAIN jobs \/ k = Len(jobs) + 1
  BY <1>2, <1>3
<1>5. ASSUME NEW j PROVE j \in Pending' <=> j \in Pending \/ j = i
  BY <1>1, <1>2, <1>4, Members
<1> QED
  BY <1>1, <1>2, <1>3, <1>5

\* LPOP takes the first one.
LEMMA PoppedFirst ==
  ASSUME jobs \in Seq(Ids), jobs # <<>>, jobs' = Tail(jobs)
  PROVE  /\ jobs' \in Seq(Ids)
         /\ Len(jobs) \in Nat \ {0} /\ DOMAIN jobs = 1..Len(jobs)
         /\ DOMAIN jobs' = 1..(Len(jobs) - 1)
         /\ \A k \in DOMAIN jobs' : jobs'[k] = jobs[k + 1]
         /\ Head(jobs) = jobs[1] /\ Head(jobs) \in Ids
         /\ Pending = Pending' \cup {Head(jobs)}
<1>1. /\ jobs' \in Seq(Ids) /\ Len(jobs') = Len(jobs) - 1 /\ Head(jobs) \in Ids
      /\ \A k \in 1..Len(jobs') : jobs'[k] = jobs[k + 1]
  BY HeadTailProperties
<1>2. Len(jobs) \in Nat \ {0} /\ DOMAIN jobs = 1..Len(jobs) /\ DOMAIN jobs' = 1..Len(jobs')
  BY <1>1, LenProperties, EmptySeq, Zenon
<1>3. Head(jobs) = jobs[1]
  OBVIOUS
<1>4. DOMAIN jobs' = 1..(Len(jobs) - 1)
  BY <1>1, <1>2
<1>5. ASSUME NEW j PROVE j \in Pending <=> j \in Pending' \/ j = Head(jobs)
  <2>1. ASSUME j \in Pending, j # Head(jobs) PROVE j \in Pending'
    <3>1. PICK k \in DOMAIN jobs : jobs[k] = j
      BY <2>1, Members
    <3>2. k # 1 /\ k - 1 \in DOMAIN jobs'
      BY <1>2, <1>3, <1>4, <2>1, <3>1
    <3>3. jobs'[k - 1] = jobs[(k - 1) + 1] /\ (k - 1) + 1 = k
      BY <1>1, <1>2, <3>1, <3>2
    <3> QED
      BY <3>1, <3>2, <3>3, Members
  <2>2. ASSUME j \in Pending' PROVE j \in Pending
    <3>1. PICK k \in DOMAIN jobs' : jobs'[k] = j
      BY <2>2, Members
    <3>2. k + 1 \in DOMAIN jobs /\ jobs[k + 1] = j
      BY <1>1, <1>2, <1>4, <3>1
    <3> QED
      BY <3>2, Members
  <2>3. Head(jobs) \in Pending
    BY <1>2, <1>3, Members
  <2> QED
    BY <2>1, <2>2, <2>3
<1> QED
  BY <1>1, <1>2, <1>3, <1>4, <1>5

\* The list is as long as it has ids, or longer.
LEMMA PendingFits ==
  ASSUME jobs \in Seq(Ids)
  PROVE  IsFiniteSet(Pending) /\ Cardinality(Pending) <= Len(jobs) /\ Len(jobs) \in Nat
<1>1. Len(jobs) \in Nat /\ DOMAIN jobs = 1..Len(jobs) /\ jobs \in [1..Len(jobs) -> Ids]
  BY LenProperties
<1>2. IsFiniteSet(1..Len(jobs)) /\ Cardinality(1..Len(jobs)) = Len(jobs)
  BY <1>1, FS_Interval
<1>3. jobs \in Surjection(1..Len(jobs), Pending)
  BY <1>1, Members DEF Surjection, Pending, ToSet
<1> QED
  BY <1>1, <1>2, <1>3, FS_Surjection

\* One hand, or one worker's claim, changes.
LEMMA HandsAfter ==
  ASSUME NEW p \in Procs, NEW i, DOMAIN hand = Procs, hand' = [hand EXCEPT ![p] = i]
  PROVE  /\ Hands' \subseteq Hands \cup {i} /\ Hands \subseteq Hands' \cup {hand[p]}
         /\ i # NoId => i \in Hands'
         /\ hand'[p] = i /\ \A q \in Procs \ {p} : hand'[q] = hand[q]
         /\ NoDoubles /\ hand[p] \notin resent \cup {i} => hand[p] \notin Hands'
<1>1. hand'[p] = i /\ \A q \in Procs \ {p} : hand'[q] = hand[q]
  OBVIOUS
<1>2. NoDoubles /\ hand[p] \notin resent \cup {i} => hand[p] \notin Hands'
  BY <1>1, Members DEF NoDoubles
<1> QED
  BY <1>1, <1>2, Members

LEMMA ClaimsAfter ==
  ASSUME NEW p \in Procs, NEW i, DOMAIN claim = Procs, claim' = [claim EXCEPT ![p] = i]
  PROVE  /\ Claims' \subseteq Claims \cup {i} /\ Claims \subseteq Claims' \cup {claim[p]}
         /\ i # NoId => i \in Claims'
         /\ claim'[p] = i /\ \A q \in Procs \ {p} : claim'[q] = claim[q]
         /\ NoDoubles /\ claim[p] \notin resent \cup {i} => claim[p] \notin Claims'
<1>1. claim'[p] = i /\ \A q \in Procs \ {p} : claim'[q] = claim[q]
  OBVIOUS
<1>2. NoDoubles /\ claim[p] \notin resent \cup {i} => claim[p] \notin Claims'
  BY <1>1, Members DEF NoDoubles
<1> QED
  BY <1>1, <1>2, Members

-------------------------------------------------------------------------------
(* What several steps have in common *)

\* How a method's step bears on the position() call.
Follows ==
    /\ asked' = IF \E q \in Procs : call'[q] = "looking" THEN asked ELSE NoId
    /\ carried' = (asked' # NoId /\ (carried \/ \E q \in Procs : hand'[q] = asked'))

\* No job leaves the list but into a hand or to an end; so the position()
\* call does not lose it.
LEMMA AskedKept ==
  ASSUME RedisInv, Follows, counter' \in Nat, counter <= counter',
         \A q \in Procs : call'[q] = "looking" => call[q] = "looking",
         Pending \subseteq Pending' \cup Hands' \cup purged' \cup dropped',
         done \subseteq done', purged \subseteq purged', dropped \subseteq dropped'
  PROVE  /\ asked' \in 0..counter' /\ carried' \in BOOLEAN
         /\ asked' # NoId <=> \E q \in Procs : call'[q] = "looking"
         /\ NotFoundOnlyIfGone'
<1>1. asked \in 0..counter /\ counter \in Nat
      /\ (asked # NoId <=> \E q \in Procs : call[q] = "looking")
  BY RedisAssumption DEF RedisAssumption, RedisInv, RTypeOK
<1>2. /\ asked' \in 0..counter' /\ carried' \in BOOLEAN
      /\ asked' # NoId <=> \E q \in Procs : call'[q] = "looking"
  BY <1>1 DEF Follows, NoId
<1>3. NotFoundOnlyIfGone'
  <2> SUFFICES ASSUME asked' # NoId, asked' \notin Pending', ~ carried'
               PROVE  asked' \in done' \cup purged' \cup dropped'
    BY DEF NotFoundOnlyIfGone
  <2>1. asked' = asked /\ ~ carried /\ asked' \notin Hands'
    BY Members DEF Follows
  <2> QED
    BY <2>1 DEF RedisInv, NotFoundOnlyIfGone
<1> QED
  BY <1>2, <1>3

\* Who enters finds room: the bound is kept when nobody else enters.
LEMMA OvershootKept ==
  ASSUME RedisInv, jobs' \in Seq(Ids), Entering' \subseteq Entering,
         Pending' \ resent' \subseteq Pending \ resent
  PROVE  OvershootByOneEach'
<1> SUFFICES ASSUME MaxSize > 0
             PROVE  Cardinality(Pending' \ resent') + Cardinality(Entering')
                      <= MaxSize + Cardinality(Procs) - 1
  BY DEF OvershootByOneEach
<1>1. IsFiniteSet(Pending \ resent) /\ IsFiniteSet(Entering)
  BY PendingFits, FS_Difference, FS_Subset, RedisAssumption
     DEF RedisAssumption, RedisInv, RTypeOK, Entering
<1>2. /\ IsFiniteSet(Pending' \ resent') /\ IsFiniteSet(Entering')
      /\ Cardinality(Pending' \ resent') <= Cardinality(Pending \ resent)
      /\ Cardinality(Entering') <= Cardinality(Entering)
  BY <1>1, FS_Subset
<1>3. /\ Cardinality(Pending \ resent) \in Nat /\ Cardinality(Entering) \in Nat
      /\ Cardinality(Pending' \ resent') \in Nat /\ Cardinality(Entering') \in Nat
      /\ Cardinality(Procs) \in Nat /\ MaxSize \in Nat
  BY <1>1, <1>2, FS_CardinalityType, RedisAssumption DEF RedisAssumption
<1>4. Cardinality(Pending \ resent) + Cardinality(Entering) <= MaxSize + Cardinality(Procs) - 1
  BY DEF RedisInv, OvershootByOneEach
<1> QED
  BY <1>2, <1>3, <1>4

\* A mishap counts down.
LEMMA SufferTypes ==
  ASSUME left \in 0..Mishaps, Suffer \/ UNCHANGED left
  PROVE  left' \in 0..Mishaps
  BY RedisAssumption DEF RedisAssumption, Suffer

-------------------------------------------------------------------------------
(* The steps *)

LEMMA InitRedis == RInit => RedisInv
<1> SUFFICES ASSUME RInit PROVE RedisInv
  OBVIOUS
<1>1. jobs = <<>> /\ jobs \in Seq(Ids) /\ Len(jobs) = 0
  BY EmptySeq DEF RInit
<1>2. DOMAIN jobs = {} /\ Pending = {}
  BY <1>1 DEF Pending, ToSet
<1>3. Hands = {} /\ Claims = {} /\ Entering = {}
  BY DEF RInit, Hands, Claims, Entering
<1>4. RTypeOK
  <2>1. InFlightIsKnown
    BY DEF RInit, InFlightIsKnown
  <2>2. MaxId \in Nat /\ Mishaps \in Nat
    BY RedisAssumption DEF RedisAssumption
  <2>3. /\ call \in [Procs -> {"none", "counted", "numbered", "popped", "looking"}]
        /\ hand \in [Procs -> 0..counter] /\ claim \in [Procs -> 0..counter]
        /\ \A q \in Procs : call[q] = "none" /\ hand[q] = NoId /\ claim[q] = NoId
    BY DEF RInit, NoId
  <2>4. counter \in 0..MaxId /\ left \in 0..Mishaps /\ asked \in 0..counter /\ asked = NoId
    BY <2>2 DEF RInit, NoId
  <2>6. carried \in BOOLEAN
    BY DEF RInit
  <2>5. inflight \subseteq Ids /\ up \subseteq Procs
    BY DEF RInit
  <2> QED
    BY <1>1, <2>1, <2>3, <2>4, <2>5, <2>6 DEF RTypeOK
<1>5. BehindInv /\ NoDoubles /\ Apart /\ Accounted /\ SoloInv /\ NotFoundOnlyIfGone
  BY <1>2, <1>3 DEF RInit, BehindInv, NoDoubles, Apart, Accounted, SoloInv,
     NotFoundOnlyIfGone, NoId, Ended
<1>6. OvershootByOneEach
  <2> SUFFICES ASSUME MaxSize > 0
               PROVE  Cardinality(Pending \ resent) + Cardinality(Entering)
                        <= MaxSize + Cardinality(Procs) - 1
    BY DEF OvershootByOneEach
  <2>1. Pending \ resent = {} /\ Cardinality({}) = 0
    BY <1>2, FS_EmptySet
  <2>2. Cardinality(Procs) \in Nat /\ MaxSize \in Nat
    BY FS_CardinalityType, RedisAssumption DEF RedisAssumption
  <2> QED
    BY <1>3, <2>1, <2>2
<1> QED
  BY <1>4, <1>5, <1>6 DEF RedisInv

\* Steps that leave Redis, the hands and the workers' jobs alone.
LEMMA ReadKeepsInv ==
  ASSUME RedisInv, NEW p \in Procs, Count(p) \/ Answer(p) \/ Start(p), Follows
  PROVE  RedisInv'
<1> USE DEF RedisInv
<1>1. UNCHANGED <<jobs, inflight, counter, claim, left, done, purged, dropped, stranded,
                  resent, solo, hidden>>
  BY DEF Count, Answer, Start, redis, rhist, fates
<1>2. hand' = hand
  <2>1. CASE Count(p) \/ Answer(p)
    <3>1. hand[p] = NoId /\ hand' = [hand EXCEPT ![p] = NoId] /\ DOMAIN hand = Procs
      BY <2>1 DEF Count, Answer, To, Ready, At, RTypeOK
    <3> QED
      BY <3>1 DEF RTypeOK
  <2>2. CASE Start(p)
    BY <2>2 DEF Start
  <2> QED
    BY <2>1, <2>2
<1>3. Pending' = Pending /\ Hands' = Hands /\ Claims' = Claims /\ Ended' = Ended
  BY <1>1, <1>2 DEF Pending, Hands, Claims, Ended
<1>4. /\ call' \in [Procs -> {"none", "counted", "numbered", "popped", "looking"}]
      /\ call'[p] \in {"none", "counted"} \/ call'[p] = call[p]
      /\ \A q \in Procs \ {p} : call'[q] = call[q]
      /\ up' \subseteq Procs /\ up \subseteq up'
      /\ p \notin up' => call'[p] = "none"
      /\ hand[p] # NoId => call'[p] = call[p]
      /\ p \notin up => call'[p] = "none" /\ claim[p] = NoId
  BY DEF Count, Answer, Start, To, Ready, At, RTypeOK
<1>5. /\ asked' \in 0..counter' /\ carried' \in BOOLEAN
      /\ asked' # NoId <=> \E q \in Procs : call'[q] = "looking"
      /\ NotFoundOnlyIfGone'
  <2>1. counter \in Nat
    BY RedisAssumption DEF RedisAssumption, RTypeOK
  <2> QED
    BY <1>1, <1>3, <1>4, <2>1, AskedKept
<1>6. RTypeOK'
  <2>1. \A q \in Procs : /\ hand'[q] # NoId <=> call'[q] \in {"numbered", "popped"}
                         /\ q \notin up' => call'[q] = "none" /\ claim'[q] = NoId
    BY <1>1, <1>2, <1>4 DEF RTypeOK, Answer, Count, Start, To, Ready, At
  <2>2. InFlightIsKnown' /\ jobs' \in Seq(Ids) /\ inflight' \subseteq Ids
    BY <1>1 DEF RTypeOK, InFlightIsKnown
  <2>3. counter' \in 0..MaxId /\ hand' \in [Procs -> 0..counter']
        /\ claim' \in [Procs -> 0..counter'] /\ left' \in 0..Mishaps
    BY <1>1, <1>2 DEF RTypeOK
  <2> QED
    BY <1>4, <1>5, <2>1, <2>2, <2>3 DEF RTypeOK
<1>7. BehindInv' /\ NoDoubles' /\ Apart' /\ Accounted' /\ SoloInv'
  BY <1>1, <1>2, <1>3, <1>4 DEF BehindInv, NoDoubles, Apart, Accounted, SoloInv
<1>8. OvershootByOneEach'
  <2>1. CASE ~ Count(p)
    <3>1. Entering' \subseteq Entering
      BY <1>1, <1>2, <1>4, <2>1 DEF Entering, Answer, Start, To, RTypeOK
    <3> QED
      BY <1>1, <1>3, <3>1, OvershootKept DEF RTypeOK
  <2>2. CASE Count(p)
    <3> SUFFICES ASSUME MaxSize > 0
                 PROVE  Cardinality(Pending' \ resent') + Cardinality(Entering')
                          <= MaxSize + Cardinality(Procs) - 1
      BY DEF OvershootByOneEach
    <3>1. IsFiniteSet(Pending) /\ Cardinality(Pending) <= Len(jobs) /\ Len(jobs) \in Nat
          /\ Len(jobs) < MaxSize
      BY <2>2, PendingFits DEF RTypeOK, Count, HasRoom
    <3>2. Cardinality(Pending \ resent) <= Cardinality(Pending) /\ IsFiniteSet(Pending \ resent)
      BY <3>1, FS_Subset
    <3>3. Entering' \in SUBSET Procs
      BY DEF Entering
    <3>4. Cardinality(Entering') <= Cardinality(Procs) /\ Cardinality(Entering') \in Nat
      BY <3>3, FS_Subset, FS_CardinalityType, RedisAssumption DEF RedisAssumption
    <3>5. /\ Cardinality(Procs) \in Nat /\ MaxSize \in Nat
          /\ Cardinality(Pending \ resent) \in Nat /\ Cardinality(Pending) \in Nat
      BY <3>1, <3>2, FS_CardinalityType, RedisAssumption DEF RedisAssumption
    <3> QED
      BY <1>1, <1>3, <3>1, <3>2, <3>4, <3>5
  <2> QED
    BY <2>1, <2>2
<1> QED
  BY <1>5, <1>6, <1>7, <1>8

\* INCR.
LEMMA NumberKeepsInv ==
  ASSUME RedisInv, NEW p \in Procs, Number(p), Follows
  PROVE  RedisInv'
<1> USE DEF RedisInv
<1> DEFINE n == counter + 1
<1>1. /\ call[p] = "counted" /\ counter' = n
      /\ UNCHANGED <<jobs, inflight, up, claim, done, purged, stranded, resent, solo, hidden>>
      /\ counter \in Nat /\ counter' \in 0..MaxId /\ n \in Ids /\ n \notin 1..counter
      /\ 1..n = 1..counter \cup {n} /\ NoId \notin 1..counter /\ n # NoId
      /\ hand[p] = NoId /\ p \in up /\ hand \in [Procs -> 0..counter]
      /\ claim \in [Procs -> 0..counter]
  <2>1. /\ call[p] = "counted" /\ counter < MaxId /\ counter' = n
        /\ UNCHANGED <<jobs, inflight, up, claim, done, purged, stranded, resent, solo, hidden>>
    BY DEF Number, At
  <2>2. MaxId \in Nat /\ counter \in 0..MaxId
    BY RedisAssumption DEF RedisAssumption, RTypeOK
  <2>3. /\ hand[p] = NoId /\ p \in up /\ hand \in [Procs -> 0..counter]
        /\ claim \in [Procs -> 0..counter]
    BY <2>1 DEF RTypeOK
  <2> QED
    BY <2>1, <2>2, <2>3 DEF Ids, NoId
<1>2. left' \in 0..Mishaps
  BY SufferTypes DEF RTypeOK, Number, Suffer
<1>3. Pending' = Pending /\ Claims' = Claims
  BY <1>1 DEF Pending, Claims
<1>4. Pending \cup inflight \cup Ended \cup resent \cup solo \cup hidden \subseteq 1..counter
      /\ Hands \cup Claims \subseteq 1..counter
  BY <1>1, Members DEF BehindInv
<1>5. \/ /\ To(p, "numbered", n) /\ dropped' = dropped
      \/ /\ UNCHANGED <<call, hand>> /\ dropped' = dropped \cup {n}
  BY <1>1 DEF Number
<1>6. /\ Hands' \cup dropped' = Hands \cup dropped \cup {n}
      /\ Hands \subseteq Hands' /\ dropped \subseteq dropped' /\ Hands' \cap dropped' \subseteq Hands \cap dropped
      /\ call' \in [Procs -> {"none", "counted", "numbered", "popped", "looking"}]
      /\ call'[p] \in {"counted", "numbered"} /\ hand'[p] \in {NoId, n}
      /\ hand'[p] = NoId <=> call'[p] = "counted"
      /\ \A q \in Procs \ {p} : call'[q] = call[q] /\ hand'[q] = hand[q]
      /\ hand' \in [Procs -> 0..counter']
  <2>1. CASE To(p, "numbered", n) /\ dropped' = dropped
    <3>1. hand' = [hand EXCEPT ![p] = n] /\ call' = [call EXCEPT ![p] = "numbered"]
      BY <2>1 DEF To
    <3>2. Hands' = Hands \cup {n}
      BY <1>1, <3>1, HandsAfter, Members
    <3>3. hand' \in [Procs -> 0..counter']
      BY <1>1, <3>1
    <3> QED
      BY <1>1, <1>4, <2>1, <3>1, <3>2, <3>3 DEF RTypeOK, Ended
  <2>2. CASE UNCHANGED <<call, hand>> /\ dropped' = dropped \cup {n}
    <3>1. Hands' = Hands /\ hand' \in [Procs -> 0..counter']
      BY <1>1, <2>2 DEF Hands
    <3> QED
      BY <1>1, <1>4, <2>2, <3>1 DEF RTypeOK
  <2> QED
    BY <1>5, <2>1, <2>2
<1>7. /\ asked' \in 0..counter' /\ carried' \in BOOLEAN
      /\ asked' # NoId <=> \E q \in Procs : call'[q] = "looking"
      /\ NotFoundOnlyIfGone'
  <2>1. counter <= counter' /\ counter' \in Nat
    BY <1>1
  <2>2. \A q \in Procs : call'[q] = "looking" => call[q] = "looking"
    BY <1>6
  <2> QED
    BY <1>1, <1>3, <1>6, <2>1, <2>2, AskedKept
<1>8. RTypeOK'
  <2>1. \A q \in Procs : /\ hand'[q] # NoId <=> call'[q] \in {"numbered", "popped"}
                         /\ q \notin up' => call'[q] = "none" /\ claim'[q] = NoId
    BY <1>1, <1>6 DEF RTypeOK
  <2>2. claim' \in [Procs -> 0..counter'] /\ InFlightIsKnown'
    BY <1>1 DEF RTypeOK, InFlightIsKnown
  <2> QED
    BY <1>1, <1>2, <1>6, <1>7, <2>1, <2>2 DEF RTypeOK
<1>9. BehindInv'
  <2>1. Ended' \subseteq Ended \cup {n}
    BY <1>1, <1>5 DEF Ended
  <2>2. \A q \in Procs : call'[q] = "popped" => claim'[q] = NoId
    BY <1>1, <1>6 DEF BehindInv
  <2> QED
    BY <1>1, <1>3, <1>4, <2>1, <2>2 DEF BehindInv
<1>10. NoDoubles'
  <2>1. \A q \in Procs \ {p} : hand[q] # n
    BY <1>1
  <2>2. ASSUME NEW q \in Procs, NEW r \in Procs, hand'[q] = hand'[r],
               hand'[q] \notin resent \cup {NoId}
        PROVE  q = r
    BY <1>1, <1>6, <2>1, <2>2 DEF NoDoubles
  <2> QED
    BY <1>1, <2>2 DEF NoDoubles
<1>11. Apart'
  BY <1>1, <1>3, <1>4, <1>6 DEF Apart, Ended
<1>12. Accounted'
  BY <1>1, <1>3, <1>6 DEF Accounted, Ended
<1>13. SoloInv'
  <2> SUFFICES ASSUME NEW i \in solo, NEW k \in Pending \cup inflight \cup Hands \cup {n}, k < i
               PROVE  k \in hidden
    BY <1>1, <1>3, <1>6 DEF SoloInv
  <2>1. i \in 1..counter
    BY <1>4
  <2>2. k # n
    BY <1>1, <2>1
  <2> QED
    BY <2>2 DEF SoloInv
<1>14. OvershootByOneEach'
  <2>1. Entering' \subseteq Entering
    BY <1>1, <1>4, <1>6 DEF Entering
  <2> QED
    BY <1>1, <1>3, <2>1, OvershootKept DEF RTypeOK
<1> QED
  BY <1>7, <1>8, <1>9, <1>10, <1>11, <1>12, <1>13, <1>14

\* RPUSH.
LEMMA PushKeepsInv ==
  ASSUME RedisInv, NEW p \in Procs, Push(p), Follows
  PROVE  RedisInv'
<1> USE DEF RedisInv
<1> DEFINE i == hand[p]
<1>1. /\ call[p] = "numbered" /\ jobs' = Append(jobs, i) /\ jobs \in Seq(Ids)
      /\ UNCHANGED <<inflight, counter, up, claim, done, purged, dropped, stranded, solo, hidden>>
      /\ i # NoId /\ i \in 1..counter /\ i \in Ids /\ i \in Hands /\ p \in up
      /\ hand \in [Procs -> 0..counter] /\ counter \in Nat
      /\ \/ To(p, "none", NoId) /\ resent' = resent
         \/ resent' = resent \cup {i} /\ UNCHANGED <<call, hand>>
  <2>1. call[p] = "numbered" /\ jobs' = Append(jobs, i) /\ jobs \in Seq(Ids)
        /\ UNCHANGED <<inflight, counter, up, claim, done, purged, dropped, stranded, solo, hidden>>
        /\ \/ To(p, "none", NoId) /\ resent' = resent
           \/ resent' = resent \cup {i} /\ UNCHANGED <<call, hand>>
    BY DEF Push, At, RTypeOK, fates
  <2>2. i # NoId /\ i \in 0..counter /\ p \in up /\ hand \in [Procs -> 0..counter]
    BY <2>1 DEF RTypeOK
  <2>3. counter \in 0..MaxId /\ MaxId \in Nat
    BY RedisAssumption DEF RedisAssumption, RTypeOK
  <2> QED
    BY <2>1, <2>2, <2>3, Members DEF Ids, NoId
<1>2. left' \in 0..Mishaps
  BY SufferTypes DEF RTypeOK, Push
<1>3. /\ jobs' \in Seq(Ids) /\ Pending' = Pending \cup {i}
      /\ Len(jobs) \in Nat /\ DOMAIN jobs = 1..Len(jobs) /\ DOMAIN jobs' = 1..(Len(jobs) + 1)
      /\ \A k \in DOMAIN jobs : jobs'[k] = jobs[k]
      /\ jobs'[Len(jobs) + 1] = i
  BY <1>1, PushedLast
<1>4. /\ resent \subseteq resent' /\ resent' \subseteq resent \cup {i}
      /\ Hands' \subseteq Hands /\ Hands \subseteq Hands' \cup {i}
      /\ i \in Hands' => i \in resent'
      /\ call' \in [Procs -> {"none", "counted", "numbered", "popped", "looking"}]
      /\ call'[p] \in {"none", "numbered"} /\ hand'[p] \in {NoId, i}
      /\ hand'[p] = NoId <=> call'[p] = "none"
      /\ \A q \in Procs \ {p} : call'[q] = call[q] /\ hand'[q] = hand[q]
      /\ hand' \in [Procs -> 0..counter]
  <2>1. CASE To(p, "none", NoId) /\ resent' = resent
    <3>1. hand' = [hand EXCEPT ![p] = NoId] /\ call' = [call EXCEPT ![p] = "none"]
      BY <2>1 DEF To
    <3>2. NoId \notin Hands /\ NoId \notin Hands'
      BY Members
    <3>3. hand' \in [Procs -> 0..counter]
      BY <1>1, <3>1 DEF NoId
    <3>4. /\ Hands' \subseteq Hands \cup {NoId} /\ Hands \subseteq Hands' \cup {i}
          /\ hand'[p] = NoId /\ \A q \in Procs \ {p} : hand'[q] = hand[q]
          /\ i \in Hands' => i \in resent
      <4>1. DOMAIN hand = Procs /\ i # NoId
        BY <1>1
      <4> QED
        BY <3>1, <4>1, HandsAfter
    <3>5. /\ call' \in [Procs -> {"none", "counted", "numbered", "popped", "looking"}]
          /\ call'[p] = "none" /\ \A q \in Procs \ {p} : call'[q] = call[q]
      BY <3>1 DEF RTypeOK
    <3> QED
      BY <2>1, <3>2, <3>3, <3>4, <3>5
  <2>2. CASE resent' = resent \cup {i} /\ UNCHANGED <<call, hand>>
    <3>1. Hands' = Hands /\ hand' \in [Procs -> 0..counter]
      BY <1>1, <2>2 DEF Hands
    <3> QED
      BY <1>1, <2>2, <3>1 DEF RTypeOK
  <2> QED
    BY <1>1, <2>1, <2>2
<1>5. Claims' = Claims /\ Ended' = Ended
  BY <1>1 DEF Claims, Ended
<1>6. i \in Pending \cup Claims \cup Ended => i \in resent
  BY <1>1 DEF Apart
<1>7. /\ asked' \in 0..counter' /\ carried' \in BOOLEAN
      /\ asked' # NoId <=> \E q \in Procs : call'[q] = "looking"
      /\ NotFoundOnlyIfGone'
  <2>1. \A q \in Procs : call'[q] = "looking" => call[q] = "looking"
    BY <1>4
  <2> QED
    BY <1>1, <1>3, <2>1, AskedKept
<1>8. RTypeOK'
  <2>1. \A q \in Procs : /\ hand'[q] # NoId <=> call'[q] \in {"numbered", "popped"}
                         /\ q \notin up' => call'[q] = "none" /\ claim'[q] = NoId
    BY <1>1, <1>4 DEF RTypeOK
  <2>2. InFlightIsKnown'
    BY <1>1, <1>4 DEF RTypeOK, InFlightIsKnown
  <2>3. inflight' \subseteq Ids /\ counter' \in 0..MaxId /\ up' \subseteq Procs
        /\ claim' \in [Procs -> 0..counter']
    BY <1>1 DEF RTypeOK
  <2> QED
    BY <1>1, <1>2, <1>3, <1>4, <1>7, <2>1, <2>2, <2>3 DEF RTypeOK
<1>9. BehindInv'
  <2>1. Pending' \cup inflight' \cup Ended' \cup resent' \cup solo' \cup hidden' \subseteq 1..counter
    BY <1>1, <1>3, <1>4, <1>5 DEF BehindInv
  <2>2. \A q \in Procs : call'[q] = "popped" => claim'[q] = NoId
    BY <1>1, <1>4 DEF BehindInv
  <2> QED
    BY <1>1, <2>1, <2>2 DEF BehindInv
<1>10. NoDoubles'
  <2>1. ASSUME NEW k \in DOMAIN jobs', NEW n \in DOMAIN jobs', jobs'[k] = jobs'[n],
               jobs'[k] \notin resent'
        PROVE  k = n
    <3>1. jobs'[k] = i => i \notin Pending
      BY <1>4, <1>6, <2>1
    <3>2. \A m \in DOMAIN jobs : jobs[m] \in Pending
      BY Members
    <3>3. \A m \in DOMAIN jobs' : m \in DOMAIN jobs \/ m = Len(jobs) + 1
      BY <1>3
    <3> QED
      BY <1>3, <1>4, <2>1, <3>1, <3>2, <3>3 DEF NoDoubles
  <2>2. ASSUME NEW q \in Procs, NEW r \in Procs, hand'[q] = hand'[r],
               hand'[q] \notin resent' \cup {NoId}
        PROVE  q = r
    BY <1>4, <2>2 DEF NoDoubles
  <2> QED
    BY <1>1, <1>4, <2>1, <2>2 DEF NoDoubles
<1>11. Apart'
  BY <1>1, <1>3, <1>4, <1>5, <1>6 DEF Apart
<1>12. Accounted'
  BY <1>1, <1>3, <1>4, <1>5 DEF Accounted
<1>13. SoloInv'
  BY <1>1, <1>3, <1>4 DEF SoloInv
<1>14. OvershootByOneEach'
  <2>1. CASE i \in resent'
    <3>1. Pending' \ resent' \subseteq Pending \ resent
      BY <1>3, <1>4, <2>1
    <3>2. Entering' \subseteq Entering
      BY <1>4, <2>1 DEF Entering
    <3> QED
      BY <1>3, <3>1, <3>2, OvershootKept
  <2>2. CASE i \notin resent'
    <3> SUFFICES ASSUME MaxSize > 0
                 PROVE  Cardinality(Pending' \ resent') + Cardinality(Entering')
                          <= MaxSize + Cardinality(Procs) - 1
      BY DEF OvershootByOneEach
    <3>1. resent' = resent /\ To(p, "none", NoId)
      BY <1>1, <2>2
    <3>2. Pending' \ resent' = (Pending \ resent) \cup {i} /\ i \notin Pending \ resent
      BY <1>3, <1>6, <2>2, <3>1
    <3>3. Entering' = Entering \ {p} /\ p \in Entering
      BY <1>1, <1>4, <2>2, <3>1 DEF Entering, To, RTypeOK
    <3>4. IsFiniteSet(Pending \ resent) /\ IsFiniteSet(Entering)
      BY PendingFits, FS_Difference, FS_Subset, RedisAssumption
         DEF RedisAssumption, RTypeOK, Entering
    <3>5. /\ Cardinality(Pending' \ resent') = Cardinality(Pending \ resent) + 1
          /\ Cardinality(Entering') = Cardinality(Entering) - 1
      <4> DEFINE R == Pending \ resent
      <4>1. R \cup {i} = Pending' \ resent' /\ i \notin R /\ IsFiniteSet(R)
        BY <3>2, <3>4
      <4>2. Cardinality(R \cup {i}) = Cardinality(R) + 1
        <5> HIDE DEF R, i
        <5> QED
          BY <4>1, FS_AddElement
      <4>3. Cardinality(Entering \ {p}) = Cardinality(Entering) - 1
        BY <3>3, <3>4, FS_RemoveElement
      <4> QED
        BY <3>3, <4>1, <4>2, <4>3
    <3>6. /\ Cardinality(Pending \ resent) \in Nat /\ Cardinality(Entering) \in Nat
          /\ Cardinality(Procs) \in Nat /\ MaxSize \in Nat
      BY <3>4, FS_CardinalityType, RedisAssumption DEF RedisAssumption
    <3>7. Cardinality(Pending \ resent) + Cardinality(Entering)
            <= MaxSize + Cardinality(Procs) - 1
      BY DEF OvershootByOneEach
    <3> QED
      BY <3>5, <3>6, <3>7
  <2> QED
    BY <2>1, <2>2
<1> QED
  BY <1>7, <1>8, <1>9, <1>10, <1>11, <1>12, <1>13, <1>14

\* The script of enqueue_if_idle.
LEMMA EnqueueIfIdleKeepsInv ==
  ASSUME RedisInv, NEW p \in Procs, EnqueueIfIdle(p), Follows
  PROVE  RedisInv'
<1> USE DEF RedisInv
<1> DEFINE n == counter + 1
<1>1. /\ jobs = <<>> /\ inflight = {} /\ counter' = n /\ jobs' = Append(jobs, n)
      /\ solo' = solo \cup {n} /\ hidden' = hidden \cup Hands /\ p \in up /\ call[p] = "none"
      /\ UNCHANGED <<inflight, up, call, hand, claim, left, done, purged, dropped, stranded, resent>>
  BY DEF EnqueueIfIdle, Ready, Idle, procs, fates
<1>2. /\ counter \in Nat /\ counter' \in 0..MaxId /\ n \in Ids /\ n \notin 1..counter
      /\ 1..n = 1..counter \cup {n} /\ NoId \notin 1..counter /\ n # NoId
      /\ 0..counter \subseteq 0..n
  <2>1. counter < MaxId /\ counter \in 0..MaxId /\ MaxId \in Nat
    BY RedisAssumption DEF RedisAssumption, RTypeOK, EnqueueIfIdle
  <2> QED
    BY <1>1, <2>1 DEF Ids, NoId
<1>3. /\ jobs \in Seq(Ids) /\ DOMAIN jobs = {} /\ Pending = {} /\ Len(jobs) = 0
  <2>1. jobs \in Seq(Ids) /\ Len(jobs) = 0
    BY <1>1, EmptySeq DEF RTypeOK
  <2>2. DOMAIN jobs = {}
    BY <1>1
  <2> QED
    BY <2>1, <2>2, Members
<1>4. /\ jobs' \in Seq(Ids) /\ Pending' = {n} /\ DOMAIN jobs' = 1..1
  BY <1>1, <1>2, <1>3, PushedLast
<1>5. Hands' = Hands /\ Claims' = Claims /\ Ended' = Ended /\ Entering' = Entering
  BY <1>1 DEF Hands, Claims, Ended, Entering
<1>6. /\ Ended \cup resent \cup solo \cup hidden \subseteq 1..counter
      /\ Hands \cup Claims \subseteq 1..counter
  BY <1>2, Members DEF BehindInv, RTypeOK, NoId
<1>7. /\ asked' \in 0..counter' /\ carried' \in BOOLEAN
      /\ asked' # NoId <=> \E q \in Procs : call'[q] = "looking"
      /\ NotFoundOnlyIfGone'
  <2>1. counter <= counter' /\ counter' \in Nat
    BY <1>1, <1>2
  <2> QED
    BY <1>1, <1>3, <2>1, AskedKept
<1>8. RTypeOK'
  <2>1. InFlightIsKnown'
    BY <1>1 DEF RTypeOK, InFlightIsKnown
  <2>2. hand' \in [Procs -> 0..counter'] /\ claim' \in [Procs -> 0..counter']
    BY <1>1, <1>2 DEF RTypeOK
  <2> QED
    BY <1>1, <1>2, <1>4, <1>7, <2>1, <2>2 DEF RTypeOK
<1>9. BehindInv'
  BY <1>1, <1>2, <1>4, <1>5, <1>6 DEF BehindInv
<1>10. NoDoubles'
  <2>1. \A k, m \in DOMAIN jobs' : k = m
    BY <1>4
  <2> QED
    BY <1>1, <2>1 DEF NoDoubles
<1>11. Apart'
  BY <1>1, <1>2, <1>4, <1>5, <1>6 DEF Apart
<1>12. Accounted'
  BY <1>1, <1>2, <1>3, <1>4, <1>5 DEF Accounted
<1>13. SoloInv'
  <2> SUFFICES ASSUME NEW i \in solo \cup {n}, NEW k \in {n} \cup Hands, k < i
               PROVE  k \in hidden \cup Hands
    BY <1>1, <1>4, <1>5 DEF SoloInv
  <2>1. i \in 1..n
    BY <1>2, <1>6
  <2> QED
    BY <1>2, <2>1
<1>14. OvershootByOneEach'
  <2> SUFFICES ASSUME MaxSize > 0
               PROVE  Cardinality(Pending' \ resent') + Cardinality(Entering')
                        <= MaxSize + Cardinality(Procs) - 1
    BY DEF OvershootByOneEach
  <2>1. Cardinality(Pending' \ resent') = 1
    <3>1. Pending' \ resent' = {n}
      BY <1>1, <1>2, <1>4, <1>6
    <3> QED
      BY <3>1, FS_Singleton
  <2>2. Entering \in SUBSET (Procs \ {p})
    BY <1>1 DEF Entering
  <2>3. /\ IsFiniteSet(Procs \ {p}) /\ Cardinality(Procs \ {p}) = Cardinality(Procs) - 1
        /\ Cardinality(Procs) \in Nat /\ MaxSize \in Nat
    BY FS_RemoveElement, FS_CardinalityType, RedisAssumption DEF RedisAssumption
  <2>4. Cardinality(Entering) <= Cardinality(Procs \ {p}) /\ Cardinality(Entering) \in Nat
    BY <2>2, <2>3, FS_Subset, FS_CardinalityType
  <2> QED
    BY <1>5, <2>1, <2>3, <2>4
<1> QED
  BY <1>7, <1>8, <1>9, <1>10, <1>11, <1>12, <1>13, <1>14

\* LPOP.
LEMMA PopKeepsInv ==
  ASSUME RedisInv, NEW p \in Procs, Pop(p), Follows
  PROVE  RedisInv'
<1> USE DEF RedisInv
<1> DEFINE i == Head(jobs)
<1>1. /\ call[p] = "none" /\ p \in up /\ claim[p] = NoId
      /\ jobs \in Seq(Ids) /\ jobs # <<>> /\ jobs' = Tail(jobs)
      /\ UNCHANGED <<inflight, counter, up, claim, done, purged, stranded, resent, solo, hidden>>
      /\ \/ To(p, "popped", i) /\ dropped' = dropped
         \/ dropped' = dropped \cup {i} /\ UNCHANGED <<call, hand>>
  BY DEF Pop, Ready, RTypeOK
<1>2. left' \in 0..Mishaps
  BY SufferTypes DEF RTypeOK, Pop
<1>3. /\ jobs' \in Seq(Ids) /\ i \in Ids /\ Pending = Pending' \cup {i} /\ i = jobs[1]
      /\ Len(jobs) \in Nat \ {0} /\ DOMAIN jobs = 1..Len(jobs) /\ DOMAIN jobs' = 1..(Len(jobs) - 1)
      /\ \A k \in DOMAIN jobs' : jobs'[k] = jobs[k + 1]
  BY <1>1, PoppedFirst
<1>4. counter \in Nat /\ i \in 1..counter /\ i \in 0..counter /\ i # NoId
      /\ hand \in [Procs -> 0..counter] /\ hand[p] = NoId
  <2>1. counter \in Nat
    BY RedisAssumption DEF RedisAssumption, RTypeOK
  <2>2. i \in 1..counter
    BY <1>3 DEF BehindInv
  <2>3. i \in 0..counter /\ i # NoId
    BY <2>1, <2>2 DEF NoId
  <2>4. hand \in [Procs -> 0..counter] /\ hand[p] = NoId
    BY <1>1 DEF RTypeOK
  <2> QED
    BY <2>1, <2>2, <2>3, <2>4
<1>5. /\ Hands' \cup dropped' = Hands \cup dropped \cup {i}
      /\ Hands \subseteq Hands' /\ dropped \subseteq dropped'
      /\ Hands' \subseteq Hands \cup {i} /\ dropped' \subseteq dropped \cup {i}
      /\ Hands' = Hands \/ dropped' = dropped
      /\ call' \in [Procs -> {"none", "counted", "numbered", "popped", "looking"}]
      /\ call'[p] \in {"none", "popped"} /\ hand'[p] \in {NoId, i}
      /\ hand'[p] = NoId <=> call'[p] = "none"
      /\ \A q \in Procs \ {p} : call'[q] = call[q] /\ hand'[q] = hand[q]
      /\ hand' \in [Procs -> 0..counter]
  <2>1. CASE To(p, "popped", i) /\ dropped' = dropped
    <3>1. hand' = [hand EXCEPT ![p] = i] /\ call' = [call EXCEPT ![p] = "popped"]
      BY <2>1 DEF To
    <3>2. DOMAIN hand = Procs /\ NoId \notin Hands
      BY <1>4, Members
    <3>3. /\ Hands' = Hands \cup {i} /\ hand'[p] = i
          /\ \A q \in Procs \ {p} : hand'[q] = hand[q]
      <4>1. NoId \notin Hands' /\ i # NoId /\ hand[p] = NoId
        BY <1>4, Members
      <4>2. /\ Hands' \subseteq Hands \cup {i} /\ Hands \subseteq Hands' \cup {hand[p]}
            /\ i \in Hands' /\ hand'[p] = i
            /\ \A q \in Procs \ {p} : hand'[q] = hand[q]
        <5> HIDE DEF i
        <5> QED
          BY <3>1, <3>2, <4>1, HandsAfter
      <4> QED
        BY <3>2, <4>1, <4>2
    <3>4. hand' \in [Procs -> 0..counter]
      BY <1>4, <3>1
    <3>5. /\ call' \in [Procs -> {"none", "counted", "numbered", "popped", "looking"}]
          /\ call'[p] = "popped" /\ \A q \in Procs \ {p} : call'[q] = call[q]
      BY <3>1 DEF RTypeOK
    <3> QED
      BY <1>4, <2>1, <3>3, <3>4, <3>5
  <2>2. CASE dropped' = dropped \cup {i} /\ UNCHANGED <<call, hand>>
    <3>1. Hands' = Hands /\ hand' \in [Procs -> 0..counter]
      BY <1>4, <2>2 DEF Hands
    <3> QED
      BY <1>1, <1>4, <2>2, <3>1 DEF RTypeOK
  <2> QED
    BY <1>1, <2>1, <2>2
<1>6. Claims' = Claims
  BY <1>1 DEF Claims
<1>7. i \notin resent => i \notin Pending' \cup Hands \cup Claims \cup Ended
  <2>1. ASSUME i \in Pending' PROVE i \in resent
    <3>1. PICK k \in DOMAIN jobs' : jobs'[k] = i
      BY <2>1, Members
    <3>2. k + 1 \in DOMAIN jobs /\ 1 \in DOMAIN jobs /\ k + 1 # 1 /\ jobs[k + 1] = jobs[1]
      BY <1>3, <3>1
    <3> QED
      BY <1>3, <3>2 DEF NoDoubles
  <2>2. i \in Pending
    BY <1>3
  <2> QED
    BY <2>1, <2>2 DEF Apart
<1>8. /\ asked' \in 0..counter' /\ carried' \in BOOLEAN
      /\ asked' # NoId <=> \E q \in Procs : call'[q] = "looking"
      /\ NotFoundOnlyIfGone'
  <2>1. \A q \in Procs : call'[q] = "looking" => call[q] = "looking"
    BY <1>5
  <2>2. counter <= counter' /\ counter' \in Nat
    BY <1>1, <1>4
  <2>3. Pending \subseteq Pending' \cup Hands' \cup purged' \cup dropped'
    BY <1>3, <1>5
  <2> QED
    BY <1>1, <1>5, <2>1, <2>2, <2>3, AskedKept
<1>9. RTypeOK'
  <2>1. \A q \in Procs : /\ hand'[q] # NoId <=> call'[q] \in {"numbered", "popped"}
                         /\ q \notin up' => call'[q] = "none" /\ claim'[q] = NoId
    BY <1>1, <1>5 DEF RTypeOK
  <2>2. InFlightIsKnown'
    BY <1>1 DEF RTypeOK, InFlightIsKnown
  <2>3. inflight' \subseteq Ids /\ counter' \in 0..MaxId /\ up' \subseteq Procs
        /\ claim' \in [Procs -> 0..counter']
    BY <1>1 DEF RTypeOK
  <2> QED
    BY <1>1, <1>2, <1>3, <1>5, <1>8, <2>1, <2>2, <2>3 DEF RTypeOK
<1>10. BehindInv'
  <2>1. Pending' \cup inflight' \cup Ended' \cup resent' \cup solo' \cup hidden' \subseteq 1..counter
    BY <1>1, <1>3, <1>4, <1>5 DEF BehindInv, Ended
  <2>2. \A q \in Procs : call'[q] = "popped" => claim'[q] = NoId
    BY <1>1, <1>5 DEF BehindInv
  <2> QED
    BY <1>1, <2>1, <2>2 DEF BehindInv
<1>11. NoDoubles'
  <2>1. ASSUME NEW k \in DOMAIN jobs', NEW n \in DOMAIN jobs', jobs'[k] = jobs'[n],
               jobs'[k] \notin resent'
        PROVE  k = n
    <3>1. k + 1 \in DOMAIN jobs /\ n + 1 \in DOMAIN jobs /\ jobs[k + 1] = jobs[n + 1]
          /\ jobs[k + 1] \notin resent
      BY <1>1, <1>3, <2>1
    <3>2. k + 1 = n + 1
      BY <3>1 DEF NoDoubles
    <3> QED
      BY <1>3, <3>2
  <2>2. ASSUME NEW q \in Procs, NEW r \in Procs, hand'[q] = hand'[r],
               hand'[q] \notin resent' \cup {NoId}
        PROVE  q = r
    <3>1. \A s \in Procs : hand[s] # NoId => hand[s] \in Hands
      BY Members
    <3> QED
      BY <1>1, <1>5, <1>7, <2>2, <3>1 DEF NoDoubles
  <2> QED
    BY <1>1, <2>1, <2>2 DEF NoDoubles
<1>12. Apart'
  BY <1>1, <1>3, <1>5, <1>6, <1>7 DEF Apart, Ended
<1>13. Accounted'
  BY <1>1, <1>3, <1>5, <1>6 DEF Accounted, Ended
<1>14. SoloInv'
  BY <1>1, <1>3, <1>5 DEF SoloInv
<1>15. OvershootByOneEach'
  <2>1. Entering' \subseteq Entering
    BY <1>1, <1>5 DEF Entering
  <2>2. Pending' \ resent' \subseteq Pending \ resent
    BY <1>1, <1>3
  <2> QED
    BY <1>3, <2>1, <2>2, OvershootKept
<1> QED
  BY <1>8, <1>9, <1>10, <1>11, <1>12, <1>13, <1>14, <1>15

\* What a step needs to show when it leaves the list, the counter and the
\* processes' entries alone, or empties them.
LEMMA ShrinkingKeepsTheRest ==
  ASSUME RedisInv, Follows, jobs' \in {jobs, <<>>}, UNCHANGED <<counter, resent, solo, hidden>>,
         call' \in [Procs -> {"none", "counted", "numbered", "popped", "looking"}],
         \A q \in Procs : /\ call'[q] = call[q] \/ call'[q] = "none"
                          /\ call'[q] # "none" => hand'[q] = hand[q],
         Pending' \cup inflight' \cup Hands' \subseteq Pending \cup inflight \cup Hands,
         Pending \subseteq Pending' \cup purged',
         done \subseteq done', purged \subseteq purged', dropped \subseteq dropped'
  PROVE  /\ asked' \in 0..counter' /\ carried' \in BOOLEAN
         /\ asked' # NoId <=> \E q \in Procs : call'[q] = "looking"
         /\ NotFoundOnlyIfGone' /\ SoloInv' /\ OvershootByOneEach' /\ jobs' \in Seq(Ids)
<1>1. counter' \in Nat /\ counter <= counter'
  BY RedisAssumption DEF RedisAssumption, RedisInv, RTypeOK
<1>2. \A q \in Procs : call'[q] = "looking" => call[q] = "looking"
  OBVIOUS
<1>3. /\ asked' \in 0..counter' /\ carried' \in BOOLEAN
      /\ asked' # NoId <=> \E q \in Procs : call'[q] = "looking"
      /\ NotFoundOnlyIfGone'
  BY <1>1, <1>2, AskedKept
<1>4. SoloInv'
  BY DEF RedisInv, SoloInv
<1>5. jobs' \in Seq(Ids)
  BY EmptySeq DEF RedisInv, RTypeOK
<1>6. OvershootByOneEach'
  <2>1. Entering' \subseteq Entering
    BY DEF Entering
  <2>2. Pending' \subseteq Pending
    <3>1. CASE jobs' = jobs
      BY <3>1 DEF Pending
    <3>2. CASE jobs' = <<>>
      <4>1. DOMAIN jobs' = {}
        BY <3>2
      <4> QED
        BY <4>1, Members
    <3> QED
      BY <3>1, <3>2
  <2> QED
    BY <1>5, <2>1, <2>2, OvershootKept
<1> QED
  BY <1>3, <1>4, <1>5, <1>6

\* HSET.
LEMMA TrackKeepsInv ==
  ASSUME RedisInv, NEW p \in Procs, Track(p), Follows
  PROVE  RedisInv'
<1> USE DEF RedisInv
<1> DEFINE i == hand[p]
<1>1. /\ call[p] = "popped" /\ inflight' = inflight \cup {i}
      /\ claim' = [claim EXCEPT ![p] = i]
      /\ hand' = [hand EXCEPT ![p] = NoId] /\ call' = [call EXCEPT ![p] = "none"]
      /\ UNCHANGED <<jobs, counter, up, left, done, purged, dropped, stranded, resent, solo, hidden>>
  BY DEF Track, At, To, rhist, fates
<1>2. /\ claim[p] = NoId /\ i # NoId /\ i \in Hands /\ i \in Ids /\ i \in 1..counter /\ p \in up
      /\ hand \in [Procs -> 0..counter] /\ claim \in [Procs -> 0..counter]
  <2>1. claim[p] = NoId /\ i # NoId /\ i \in 0..counter /\ p \in up
    BY <1>1 DEF BehindInv, RTypeOK
  <2>2. counter \in 0..MaxId /\ MaxId \in Nat
    BY RedisAssumption DEF RedisAssumption, RTypeOK
  <2>3. hand \in [Procs -> 0..counter] /\ claim \in [Procs -> 0..counter]
    BY DEF RTypeOK
  <2> QED
    BY <2>1, <2>2, <2>3, Members DEF Ids, NoId
<1>3. Pending' = Pending /\ Ended' = Ended
  BY <1>1 DEF Pending, Ended
<1>4. /\ NoId \notin Hands' \cup Claims'
      /\ Hands' \subseteq Hands /\ Hands \subseteq Hands' \cup {i}
      /\ i \in Hands' => i \in resent
      /\ hand'[p] = NoId /\ \A q \in Procs \ {p} : hand'[q] = hand[q]
      /\ hand' \in [Procs -> 0..counter]
  <2>1. DOMAIN hand = Procs /\ NoId \notin Hands' \cup Claims'
    BY <1>2, Members
  <2>2. hand' \in [Procs -> 0..counter]
    BY <1>1, <1>2 DEF NoId
  <2>3. /\ Hands' \subseteq Hands \cup {NoId} /\ Hands \subseteq Hands' \cup {i}
        /\ hand'[p] = NoId /\ \A q \in Procs \ {p} : hand'[q] = hand[q]
        /\ i \in Hands' => i \in resent
    <3>1. hand' = [hand EXCEPT ![p] = NoId] /\ i # NoId
      BY <1>1, <1>2
    <3> QED
      BY <2>1, <3>1, HandsAfter
  <2> QED
    BY <2>1, <2>2, <2>3
<1>5. /\ Claims' = Claims \cup {i}
      /\ claim'[p] = i /\ \A q \in Procs \ {p} : claim'[q] = claim[q]
      /\ claim' \in [Procs -> 0..counter]
  <2>1. DOMAIN claim = Procs /\ NoId \notin Claims /\ i \in 0..counter
    BY <1>2, Members
  <2>2. claim' \in [Procs -> 0..counter]
    BY <1>1, <1>2, <2>1
  <2>3. /\ Claims' \subseteq Claims \cup {i} /\ Claims \subseteq Claims' \cup {claim[p]}
        /\ i \in Claims' /\ claim'[p] = i
        /\ \A q \in Procs \ {p} : claim'[q] = claim[q]
    <3>1. claim' = [claim EXCEPT ![p] = i] /\ i # NoId
      BY <1>1, <1>2
    <3> HIDE DEF i
    <3> QED
      BY <2>1, <3>1, ClaimsAfter
  <2>4. claim[p] = NoId /\ NoId \notin Claims'
    BY <1>2, Members
  <2> QED
    BY <2>1, <2>2, <2>3, <2>4
<1>6. /\ call' \in [Procs -> {"none", "counted", "numbered", "popped", "looking"}]
      /\ call'[p] = "none" /\ \A q \in Procs \ {p} : call'[q] = call[q]
  BY <1>1 DEF RTypeOK
<1>7. i \in Pending \cup Claims \cup Ended => i \in resent
  BY <1>2 DEF Apart
<1>8. /\ asked' \in 0..counter' /\ carried' \in BOOLEAN
      /\ asked' # NoId <=> \E q \in Procs : call'[q] = "looking"
      /\ NotFoundOnlyIfGone' /\ SoloInv' /\ OvershootByOneEach' /\ jobs' \in Seq(Ids)
  BY <1>1, <1>2, <1>3, <1>4, <1>6, ShrinkingKeepsTheRest
<1>9. RTypeOK'
  <2>1. \A q \in Procs : /\ hand'[q] # NoId <=> call'[q] \in {"numbered", "popped"}
                         /\ q \notin up' => call'[q] = "none" /\ claim'[q] = NoId
    BY <1>1, <1>2, <1>4, <1>5, <1>6 DEF RTypeOK
  <2>2. InFlightIsKnown'
    <3>1. \A q \in Procs : claim'[q] \in inflight' \cup resent' \cup {NoId}
      BY <1>1, <1>5 DEF RTypeOK, InFlightIsKnown
    <3>2. ASSUME NEW j \in inflight' PROVE j \in {claim'[q] : q \in Procs} \cup stranded' \cup resent'
      BY <1>1, <1>2, <1>5, Members DEF RTypeOK, InFlightIsKnown, Claims, Ids, NoId
    <3> QED
      BY <3>1, <3>2 DEF InFlightIsKnown
  <2>3. inflight' \subseteq Ids /\ counter' \in 0..MaxId /\ up' \subseteq Procs
        /\ left' \in 0..Mishaps
    BY <1>1, <1>2 DEF RTypeOK
  <2> QED
    BY <1>1, <1>4, <1>5, <1>6, <1>8, <2>1, <2>2, <2>3 DEF RTypeOK
<1>10. BehindInv'
  <2>1. Pending' \cup inflight' \cup Ended' \cup resent' \cup solo' \cup hidden' \subseteq 1..counter
    BY <1>1, <1>2, <1>3 DEF BehindInv
  <2>2. \A q \in Procs : call'[q] = "popped" => claim'[q] = NoId
    BY <1>1, <1>5, <1>6 DEF BehindInv
  <2> QED
    BY <1>1, <2>1, <2>2 DEF BehindInv
<1>11. NoDoubles'
  <2>1. \A s \in Procs : claim[s] # NoId => claim[s] \in Claims
    BY Members
  <2>2. ASSUME NEW q \in Procs, NEW r \in Procs, claim'[q] = claim'[r],
               claim'[q] \notin resent' \cup {NoId}
        PROVE  q = r
    BY <1>1, <1>5, <1>7, <2>1, <2>2 DEF NoDoubles
  <2>3. ASSUME NEW q \in Procs, NEW r \in Procs, hand'[q] = hand'[r],
               hand'[q] \notin resent' \cup {NoId}
        PROVE  q = r
    BY <1>1, <1>4, <2>3 DEF NoDoubles
  <2> QED
    BY <1>1, <2>2, <2>3 DEF NoDoubles
<1>12. Apart'
  BY <1>1, <1>3, <1>4, <1>5, <1>7 DEF Apart
<1>13. Accounted'
  BY <1>1, <1>3, <1>4, <1>5 DEF Accounted
<1> QED
  BY <1>8, <1>9, <1>10, <1>11, <1>12, <1>13

\* A worker's job is over, or it had none.
LEMMA Released ==
  ASSUME RedisInv, NEW p \in Procs, claim' = [claim EXCEPT ![p] = NoId]
  PROVE  /\ Claims' \subseteq Claims /\ Claims \subseteq Claims' \cup ({claim[p]} \ {NoId})
         /\ claim'[p] = NoId /\ \A q \in Procs \ {p} : claim'[q] = claim[q]
         /\ claim' \in [Procs -> 0..counter]
         /\ claim[p] # NoId => claim[p] \in Claims /\ claim[p] \in 1..counter
         /\ claim[p] \notin resent \cup {NoId} =>
              claim[p] \notin Claims' \cup Pending \cup Hands \cup Ended
         /\ \A q, r \in Procs :
              claim'[q] = claim'[r] /\ claim'[q] \notin resent \cup {NoId} => q = r
<1> USE DEF RedisInv
<1>1. claim \in [Procs -> 0..counter] /\ counter \in Nat
  BY RedisAssumption DEF RedisAssumption, RTypeOK
<1>2. /\ Claims' \subseteq Claims \cup {NoId} /\ Claims \subseteq Claims' \cup {claim[p]}
      /\ claim'[p] = NoId /\ \A q \in Procs \ {p} : claim'[q] = claim[q]
      /\ claim[p] \notin resent \cup {NoId} => claim[p] \notin Claims'
  <2>1. DOMAIN claim = Procs
    BY <1>1
  <2> QED
    BY <2>1, ClaimsAfter
<1>3. NoId \notin Claims /\ NoId \notin Claims'
  BY Members
<1>4. claim' \in [Procs -> 0..counter]
  BY <1>1 DEF NoId
<1>5. claim[p] # NoId => claim[p] \in Claims /\ claim[p] \in 1..counter
  <2>1. claim[p] \in 0..counter
    BY <1>1
  <2>2. claim[p] # NoId => claim[p] \in 1..counter
    BY <1>1, <2>1 DEF NoId
  <2> QED
    BY <2>2, Members
<1>6. claim[p] \notin resent \cup {NoId} => claim[p] \notin Pending \cup Hands \cup Ended
  BY <1>5 DEF Apart
<1>7. ASSUME NEW q \in Procs, NEW r \in Procs, claim'[q] = claim'[r],
             claim'[q] \notin resent \cup {NoId}
      PROVE  q = r
  BY <1>2, <1>7 DEF NoDoubles
<1> QED
  BY <1>2, <1>3, <1>4, <1>5, <1>6, <1>7

\* HDEL, carried out or not, ends a worker's job.
LEMMA CompleteKeepsInv ==
  ASSUME RedisInv, NEW p \in Procs, Complete(p) \/ CompleteRaises(p), Follows
  PROVE  RedisInv'
<1> USE DEF RedisInv
<1> DEFINE c == claim[p]
<1>1. /\ claim' = [claim EXCEPT ![p] = NoId] /\ c # NoId
      /\ UNCHANGED <<jobs, counter, up, call, hand, purged, dropped, resent, solo, hidden>>
      /\ \/ inflight' = inflight \ {c} /\ done' = done \cup {c} /\ stranded' = stranded
         \/ inflight' = inflight /\ done' = done /\ stranded' = stranded \cup {c}
  BY DEF Complete, CompleteRaises, redis
<1>2. left' \in 0..Mishaps
  BY SufferTypes DEF RTypeOK, Complete, CompleteRaises
<1>3. /\ Claims' \subseteq Claims /\ Claims \subseteq Claims' \cup {c}
      /\ claim'[p] = NoId /\ \A q \in Procs \ {p} : claim'[q] = claim[q]
      /\ claim' \in [Procs -> 0..counter] /\ c \in 1..counter /\ c \in Claims
      /\ c \notin resent => c \notin Claims' \cup Pending \cup Hands \cup Ended
      /\ \A q, r \in Procs :
              claim'[q] = claim'[r] /\ claim'[q] \notin resent \cup {NoId} => q = r
  BY <1>1, Released
<1>4. Pending' = Pending /\ Hands' = Hands /\ Ended' = Ended \cup {c}
      /\ done \subseteq done' /\ inflight' \subseteq inflight
  BY <1>1 DEF Pending, Hands, Ended
<1>5. /\ asked' \in 0..counter' /\ carried' \in BOOLEAN
      /\ asked' # NoId <=> \E q \in Procs : call'[q] = "looking"
      /\ NotFoundOnlyIfGone' /\ SoloInv' /\ OvershootByOneEach' /\ jobs' \in Seq(Ids)
  BY <1>1, <1>4, ShrinkingKeepsTheRest DEF RTypeOK
<1>6. RTypeOK'
  <2>1. \A q \in Procs : /\ hand'[q] # NoId <=> call'[q] \in {"numbered", "popped"}
                         /\ q \notin up' => call'[q] = "none" /\ claim'[q] = NoId
    BY <1>1, <1>3 DEF RTypeOK
  <2>2. InFlightIsKnown'
    <3>1. ASSUME NEW q \in Procs PROVE claim'[q] \in inflight' \cup resent' \cup {NoId}
      <4>1. CASE q # p /\ claim[q] = c
        <5>1. c \in resent
          BY <1>1, <4>1 DEF NoDoubles
        <5> QED
          BY <1>1, <1>3, <4>1, <5>1
      <4> QED
        BY <1>1, <1>3, <4>1 DEF RTypeOK, InFlightIsKnown
    <3>2. ASSUME NEW j \in inflight'
          PROVE  j \in {claim'[q] : q \in Procs} \cup stranded' \cup resent'
      <4>1. CASE j = c
        BY <1>1, <3>2, <4>1
      <4>2. CASE j # c
        BY <1>1, <1>3, <1>4, <3>2, <4>2 DEF RTypeOK, InFlightIsKnown
      <4> QED
        BY <4>1, <4>2
    <3> QED
      BY <3>1, <3>2 DEF InFlightIsKnown
  <2>3. inflight' \subseteq Ids /\ counter' \in 0..MaxId /\ up' \subseteq Procs
        /\ hand' \in [Procs -> 0..counter'] /\ claim' \in [Procs -> 0..counter']
    BY <1>1, <1>3, <1>4 DEF RTypeOK
  <2>4. call' \in [Procs -> {"none", "counted", "numbered", "popped", "looking"}]
    BY <1>1 DEF RTypeOK
  <2> QED
    BY <1>2, <1>5, <2>1, <2>2, <2>3, <2>4 DEF RTypeOK
<1>7. BehindInv'
  <2>1. \A q \in Procs : call'[q] = "popped" => claim'[q] = NoId
    BY <1>1, <1>3 DEF BehindInv
  <2> QED
    BY <1>1, <1>3, <1>4, <2>1 DEF BehindInv
<1>8. NoDoubles'
  BY <1>1, <1>3 DEF NoDoubles
<1>9. Apart'
  BY <1>1, <1>3, <1>4 DEF Apart, Ended
<1>10. Accounted'
  <2>1. 1..counter \subseteq resent' \cup Pending' \cup Hands' \cup Claims' \cup Ended'
    BY <1>1, <1>3, <1>4 DEF Accounted
  <2>2. 1..counter \subseteq Pending' \cup Hands' \cup inflight' \cup done' \cup purged' \cup dropped'
    BY <1>1, <1>4 DEF Accounted
  <2> QED
    BY <1>1, <2>1, <2>2 DEF Accounted
<1> QED
  BY <1>5, <1>6, <1>7, <1>8, <1>9, <1>10

\* DEL queue:jobs.
LEMMA PurgeKeepsInv ==
  ASSUME RedisInv, NEW p \in Procs, Purge(p), Follows
  PROVE  RedisInv'
<1> USE DEF RedisInv
<1>1. /\ jobs' = <<>> /\ purged' = purged \cup Pending
      /\ UNCHANGED <<inflight, counter, up, call, hand, claim, left, done, dropped, stranded,
                     resent, solo, hidden>>
  BY DEF Purge, procs
<1>2. DOMAIN jobs' = {} /\ Pending' = {}
  <2>1. DOMAIN jobs' = {}
    BY <1>1
  <2> QED
    BY <2>1, Members
<1>3. Hands' = Hands /\ Claims' = Claims /\ Ended' = Ended \cup Pending
  BY <1>1 DEF Hands, Claims, Ended
<1>4. /\ asked' \in 0..counter' /\ carried' \in BOOLEAN
      /\ asked' # NoId <=> \E q \in Procs : call'[q] = "looking"
      /\ NotFoundOnlyIfGone' /\ SoloInv' /\ OvershootByOneEach' /\ jobs' \in Seq(Ids)
  BY <1>1, <1>2, <1>3, ShrinkingKeepsTheRest DEF RTypeOK
<1>5. RTypeOK'
  <2>1. InFlightIsKnown'
    BY <1>1 DEF RTypeOK, InFlightIsKnown
  <2>2. /\ inflight' \subseteq Ids /\ counter' \in 0..MaxId /\ up' \subseteq Procs
        /\ call' \in [Procs -> {"none", "counted", "numbered", "popped", "looking"}]
        /\ hand' \in [Procs -> 0..counter'] /\ claim' \in [Procs -> 0..counter']
        /\ left' \in 0..Mishaps
    BY <1>1 DEF RTypeOK
  <2>3. \A q \in Procs : /\ hand'[q] # NoId <=> call'[q] \in {"numbered", "popped"}
                         /\ q \notin up' => call'[q] = "none" /\ claim'[q] = NoId
    BY <1>1 DEF RTypeOK
  <2> QED
    BY <1>4, <2>1, <2>2, <2>3 DEF RTypeOK
<1>6. BehindInv' /\ NoDoubles'
  BY <1>1, <1>2, <1>3 DEF BehindInv, NoDoubles
<1>7. Apart' /\ Accounted'
  BY <1>1, <1>2, <1>3 DEF Apart, Accounted, Ended
<1> QED
  BY <1>4, <1>5, <1>6, <1>7

\* A call that is over has nothing in its hand.
LEMMA LetGo ==
  ASSUME RedisInv, NEW p \in Procs, To(p, "none", NoId)
  PROVE  /\ Hands' \subseteq Hands /\ Hands \subseteq Hands' \cup ({hand[p]} \ {NoId})
         /\ hand'[p] = NoId /\ \A q \in Procs \ {p} : hand'[q] = hand[q] /\ call'[q] = call[q]
         /\ hand' \in [Procs -> 0..counter] /\ call'[p] = "none"
         /\ call' \in [Procs -> {"none", "counted", "numbered", "popped", "looking"}]
         /\ hand[p] # NoId => hand[p] \in Hands /\ hand[p] \in 1..counter
         /\ hand[p] \notin resent \cup {NoId} =>
              hand[p] \notin Hands' \cup Pending \cup Claims \cup Ended
         /\ \A q, r \in Procs :
              hand'[q] = hand'[r] /\ hand'[q] \notin resent \cup {NoId} => q = r
<1> USE DEF RedisInv
<1>1. /\ hand \in [Procs -> 0..counter] /\ counter \in Nat
      /\ hand' = [hand EXCEPT ![p] = NoId] /\ call' = [call EXCEPT ![p] = "none"]
  BY RedisAssumption DEF RedisAssumption, RTypeOK, To
<1>2. /\ Hands' \subseteq Hands \cup {NoId} /\ Hands \subseteq Hands' \cup {hand[p]}
      /\ hand'[p] = NoId /\ \A q \in Procs \ {p} : hand'[q] = hand[q]
      /\ hand[p] \notin resent \cup {NoId} => hand[p] \notin Hands'
  <2>1. DOMAIN hand = Procs
    BY <1>1
  <2> QED
    BY <1>1, <2>1, HandsAfter
<1>3. NoId \notin Hands /\ NoId \notin Hands'
  BY Members
<1>4. hand' \in [Procs -> 0..counter]
  BY <1>1 DEF NoId
<1>5. hand[p] # NoId => hand[p] \in Hands /\ hand[p] \in 1..counter
  <2>1. hand[p] \in 0..counter
    BY <1>1
  <2>2. hand[p] # NoId => hand[p] \in 1..counter
    BY <1>1, <2>1 DEF NoId
  <2> QED
    BY <2>2, Members
<1>6. hand[p] \notin resent \cup {NoId} => hand[p] \notin Pending \cup Claims \cup Ended
  BY <1>5 DEF Apart
<1>7. ASSUME NEW q \in Procs, NEW r \in Procs, hand'[q] = hand'[r],
             hand'[q] \notin resent \cup {NoId}
      PROVE  q = r
  BY <1>2, <1>7 DEF NoDoubles
<1>8. /\ call'[p] = "none" /\ \A q \in Procs \ {p} : call'[q] = call[q]
      /\ call' \in [Procs -> {"none", "counted", "numbered", "popped", "looking"}]
  BY <1>1 DEF RTypeOK
<1> QED
  BY <1>2, <1>3, <1>4, <1>5, <1>6, <1>7, <1>8

\* A call that raises drops what it has in its hand.
LEMMA RaiseKeepsInv ==
  ASSUME RedisInv, NEW p \in Procs, Raise(p), Follows
  PROVE  RedisInv'
<1> USE DEF RedisInv
<1> DEFINE H == {hand[p]} \ {NoId}
<1>1. /\ To(p, "none", NoId) /\ dropped' = dropped \cup H
      /\ UNCHANGED <<jobs, inflight, counter, up, claim, done, purged, stranded, resent, solo, hidden>>
  BY DEF Raise, redis
<1>2. left' \in 0..Mishaps
  BY SufferTypes DEF RTypeOK, Raise
<1>3. /\ Hands' \subseteq Hands /\ Hands \subseteq Hands' \cup H
      /\ hand'[p] = NoId /\ \A q \in Procs \ {p} : hand'[q] = hand[q] /\ call'[q] = call[q]
      /\ hand' \in [Procs -> 0..counter] /\ call'[p] = "none"
      /\ call' \in [Procs -> {"none", "counted", "numbered", "popped", "looking"}]
      /\ H \subseteq Hands /\ H \subseteq 1..counter
      /\ H \cap (Hands' \cup Pending \cup Claims \cup Ended) \subseteq resent
      /\ \A q, r \in Procs :
              hand'[q] = hand'[r] /\ hand'[q] \notin resent \cup {NoId} => q = r
  BY <1>1, LetGo
<1>4. Pending' = Pending /\ Claims' = Claims /\ Ended' = Ended \cup H
  BY <1>1 DEF Pending, Claims, Ended
<1> HIDE DEF H
<1>5. /\ asked' \in 0..counter' /\ carried' \in BOOLEAN
      /\ asked' # NoId <=> \E q \in Procs : call'[q] = "looking"
      /\ NotFoundOnlyIfGone' /\ SoloInv' /\ OvershootByOneEach' /\ jobs' \in Seq(Ids)
  BY <1>1, <1>3, <1>4, ShrinkingKeepsTheRest
<1>6. RTypeOK'
  <2>1. InFlightIsKnown'
    BY <1>1 DEF RTypeOK, InFlightIsKnown
  <2>2. /\ inflight' \subseteq Ids /\ counter' \in 0..MaxId /\ up' \subseteq Procs
        /\ hand' \in [Procs -> 0..counter'] /\ claim' \in [Procs -> 0..counter']
    BY <1>1, <1>3 DEF RTypeOK
  <2>3. \A q \in Procs : /\ hand'[q] # NoId <=> call'[q] \in {"numbered", "popped"}
                         /\ q \notin up' => call'[q] = "none" /\ claim'[q] = NoId
    BY <1>1, <1>3 DEF RTypeOK
  <2> QED
    BY <1>2, <1>3, <1>5, <2>1, <2>2, <2>3 DEF RTypeOK
<1>7. BehindInv'
  <2>1. \A q \in Procs : call'[q] = "popped" => claim'[q] = NoId
    BY <1>1, <1>3 DEF BehindInv
  <2> QED
    BY <1>1, <1>3, <1>4, <2>1 DEF BehindInv
<1>8. NoDoubles'
  BY <1>1, <1>3 DEF NoDoubles
<1>9. Apart'
  <2>1. /\ Pending' \cap (Hands' \cup Claims' \cup Ended') \subseteq resent'
        /\ Hands' \cap (Claims' \cup Ended') \subseteq resent'
        /\ Claims' \cap Ended' \subseteq resent'
    BY <1>1, <1>3, <1>4 DEF Apart
  <2>2. /\ done' \cap (purged' \cup dropped' \cup stranded') \subseteq resent'
        /\ purged' \cap (dropped' \cup stranded') \subseteq resent'
        /\ dropped' \cap stranded' \subseteq resent'
    BY <1>1, <1>3 DEF Apart, Ended
  <2> QED
    BY <2>1, <2>2 DEF Apart
<1>10. Accounted'
  BY <1>1, <1>3, <1>4 DEF Accounted
<1> QED
  BY <1>5, <1>6, <1>7, <1>8, <1>9, <1>10

\* A crash drops what is in the hand and strands what is in flight.
LEMMA CrashKeepsInv ==
  ASSUME RedisInv, NEW p \in Procs, Crash(p), Follows
  PROVE  RedisInv'
<1> USE DEF RedisInv
<1> DEFINE H == {hand[p]} \ {NoId}
           C == {claim[p]} \ {NoId}
<1>1. /\ To(p, "none", NoId) /\ dropped' = dropped \cup H
      /\ claim' = [claim EXCEPT ![p] = NoId] /\ stranded' = stranded \cup C
      /\ up' = up \ {p}
      /\ UNCHANGED <<jobs, inflight, counter, done, purged, resent, solo, hidden>>
  BY DEF Crash, redis
<1>2. left' \in 0..Mishaps
  BY SufferTypes DEF RTypeOK, Crash
<1>3. /\ Hands' \subseteq Hands /\ Hands \subseteq Hands' \cup H
      /\ hand'[p] = NoId /\ \A q \in Procs \ {p} : hand'[q] = hand[q] /\ call'[q] = call[q]
      /\ hand' \in [Procs -> 0..counter] /\ call'[p] = "none"
      /\ call' \in [Procs -> {"none", "counted", "numbered", "popped", "looking"}]
      /\ H \subseteq Hands /\ H \subseteq 1..counter
      /\ H \cap (Hands' \cup Pending \cup Claims \cup Ended) \subseteq resent
      /\ \A q, r \in Procs :
              hand'[q] = hand'[r] /\ hand'[q] \notin resent \cup {NoId} => q = r
  BY <1>1, LetGo
<1>4. /\ Claims' \subseteq Claims /\ Claims \subseteq Claims' \cup C
      /\ claim'[p] = NoId /\ \A q \in Procs \ {p} : claim'[q] = claim[q]
      /\ claim' \in [Procs -> 0..counter]
      /\ C \subseteq Claims /\ C \subseteq 1..counter
      /\ C \cap (Claims' \cup Pending \cup Hands \cup Ended) \subseteq resent
      /\ \A q, r \in Procs :
              claim'[q] = claim'[r] /\ claim'[q] \notin resent \cup {NoId} => q = r
  <2>1. /\ Claims' \subseteq Claims /\ Claims \subseteq Claims' \cup ({claim[p]} \ {NoId})
        /\ claim'[p] = NoId /\ \A q \in Procs \ {p} : claim'[q] = claim[q]
        /\ claim' \in [Procs -> 0..counter]
        /\ claim[p] # NoId => claim[p] \in Claims /\ claim[p] \in 1..counter
        /\ claim[p] \notin resent \cup {NoId} =>
             claim[p] \notin Claims' \cup Pending \cup Hands \cup Ended
        /\ \A q, r \in Procs :
              claim'[q] = claim'[r] /\ claim'[q] \notin resent \cup {NoId} => q = r
    <3>1. claim' = [claim EXCEPT ![p] = NoId]
      BY <1>1
    <3> QED
      BY <3>1, Released
  <2>2. C \subseteq Claims /\ C \subseteq 1..counter
    BY <2>1
  <2>3. C \cap (Claims' \cup Pending \cup Hands \cup Ended) \subseteq resent
    BY <2>1
  <2> QED
    BY <2>1, <2>2, <2>3
<1>5. /\ \A j : j \in C <=> j = claim[p] /\ j # NoId
      /\ Pending' = Pending /\ Ended' = Ended \cup H \cup C
  BY <1>1 DEF Pending, Ended
<1> HIDE DEF H, C
<1>6. /\ asked' \in 0..counter' /\ carried' \in BOOLEAN
      /\ asked' # NoId <=> \E q \in Procs : call'[q] = "looking"
      /\ NotFoundOnlyIfGone' /\ SoloInv' /\ OvershootByOneEach' /\ jobs' \in Seq(Ids)
  BY <1>1, <1>3, <1>5, ShrinkingKeepsTheRest
<1>7. RTypeOK'
  <2>1. InFlightIsKnown'
    <3>1. \A q \in Procs : claim'[q] \in inflight' \cup resent' \cup {NoId}
      BY <1>1, <1>4 DEF RTypeOK, InFlightIsKnown
    <3>2. ASSUME NEW j \in inflight'
          PROVE  j \in {claim'[q] : q \in Procs} \cup stranded' \cup resent'
      <4>1. j \in Ids /\ j # NoId
        BY <1>1, <3>2 DEF RTypeOK, Ids, NoId
      <4>2. j = claim[p] => j \in C
        BY <1>5, <4>1
      <4> QED
        BY <1>1, <1>4, <3>2, <4>2 DEF RTypeOK, InFlightIsKnown
    <3> QED
      BY <3>1, <3>2 DEF InFlightIsKnown
  <2>2. /\ inflight' \subseteq Ids /\ counter' \in 0..MaxId /\ up' \subseteq Procs
        /\ hand' \in [Procs -> 0..counter'] /\ claim' \in [Procs -> 0..counter']
    BY <1>1, <1>3, <1>4 DEF RTypeOK
  <2>3. \A q \in Procs : /\ hand'[q] # NoId <=> call'[q] \in {"numbered", "popped"}
                         /\ q \notin up' => call'[q] = "none" /\ claim'[q] = NoId
    BY <1>1, <1>3, <1>4 DEF RTypeOK
  <2> QED
    BY <1>2, <1>3, <1>6, <2>1, <2>2, <2>3 DEF RTypeOK
<1>8. BehindInv'
  <2>1. \A q \in Procs : call'[q] = "popped" => claim'[q] = NoId
    BY <1>1, <1>3, <1>4 DEF BehindInv
  <2> QED
    BY <1>1, <1>3, <1>4, <1>5, <2>1 DEF BehindInv
<1>9. NoDoubles'
  BY <1>1, <1>3, <1>4 DEF NoDoubles
<1>10. Apart'
  <2>1. Pending' \cap (Hands' \cup Claims' \cup Ended') \subseteq resent'
    BY <1>1, <1>3, <1>4, <1>5 DEF Apart
  <2>2. Hands' \cap (Claims' \cup Ended') \subseteq resent'
    BY <1>1, <1>3, <1>4, <1>5 DEF Apart
  <2>3. Claims' \cap Ended' \subseteq resent'
    BY <1>1, <1>3, <1>4, <1>5 DEF Apart
  <2>4. /\ done' \cap (purged' \cup dropped' \cup stranded') \subseteq resent'
        /\ purged' \cap (dropped' \cup stranded') \subseteq resent'
    BY <1>1, <1>3, <1>4 DEF Apart, Ended
  <2>5. dropped' \cap stranded' \subseteq resent'
    BY <1>1, <1>3, <1>4 DEF Apart, Ended
  <2> QED
    BY <2>1, <2>2, <2>3, <2>4, <2>5 DEF Apart
<1>11. Accounted'
  BY <1>1, <1>3, <1>4, <1>5 DEF Accounted
<1> QED
  BY <1>6, <1>7, <1>8, <1>9, <1>10, <1>11

\* A position() call begins: the job is not in the hash.
LEMMA LookKeepsInv ==
  ASSUME RedisInv, NEW p \in Procs, NEW i \in 1..counter, Look(p, i),
         carried' = (asked' # NoId /\ (carried \/ \E q \in Procs : hand'[q] = asked'))
  PROVE  RedisInv'
<1> USE DEF RedisInv
<1>1. /\ call' = [call EXCEPT ![p] = "looking"] /\ hand' = [hand EXCEPT ![p] = NoId]
      /\ call[p] = "none" /\ p \in up /\ asked = NoId /\ asked' = i /\ i \notin inflight
      /\ UNCHANGED <<jobs, inflight, counter, up, claim, left, done, purged, dropped, stranded,
                     resent, solo, hidden>>
  BY DEF Look, To, Ready, redis, rhist, fates
<1>2. hand' = hand
  <2>1. hand[p] = NoId /\ DOMAIN hand = Procs
    BY <1>1 DEF RTypeOK
  <2> QED
    BY <1>1, <2>1 DEF RTypeOK
<1>3. Pending' = Pending /\ Hands' = Hands /\ Claims' = Claims /\ Ended' = Ended
  BY <1>1, <1>2 DEF Pending, Hands, Claims, Ended
<1>4. /\ call' \in [Procs -> {"none", "counted", "numbered", "popped", "looking"}]
      /\ call'[p] = "looking" /\ \A q \in Procs \ {p} : call'[q] = call[q]
  BY <1>1 DEF RTypeOK
<1>5. /\ asked' \in 0..counter' /\ carried' \in BOOLEAN
      /\ asked' # NoId <=> \E q \in Procs : call'[q] = "looking"
  <2>1. counter \in Nat
    BY RedisAssumption DEF RedisAssumption, RTypeOK
  <2>2. i \in 0..counter /\ i # NoId
    BY <2>1 DEF NoId
  <2> QED
    BY <1>1, <1>4, <2>2
<1>6. NotFoundOnlyIfGone'
  <2> SUFFICES ASSUME i \notin Pending, i \notin Hands
               PROVE  i \in done \cup purged \cup dropped
    <3>1. i # NoId
      BY <1>1, <1>5 DEF NoId
    <3>2. ASSUME i \in Hands PROVE carried'
      <4>1. PICK q \in Procs : hand[q] = i
        BY <3>1, <3>2, Members
      <4>2. asked' = i /\ hand'[q] = i
        BY <1>1, <1>2, <4>1
      <4> QED
        BY <3>1, <4>2
    <3>3. /\ asked' = i /\ Pending' = Pending
          /\ done' = done /\ purged' = purged /\ dropped' = dropped
      BY <1>1, <1>3
    <3>4. i \in Pending \cup done \cup purged \cup dropped \/ carried'
      BY <3>2
    <3> HIDE DEF RedisInv
    <3> QED
      BY <3>3, <3>4 DEF NotFoundOnlyIfGone
  <2> QED
    BY <1>1 DEF Accounted
<1>7. RTypeOK'
  <2>1. InFlightIsKnown'
    BY <1>1 DEF RTypeOK, InFlightIsKnown
  <2>2. /\ inflight' \subseteq Ids /\ counter' \in 0..MaxId /\ up' \subseteq Procs
        /\ hand' \in [Procs -> 0..counter'] /\ claim' \in [Procs -> 0..counter']
        /\ left' \in 0..Mishaps /\ jobs' \in Seq(Ids)
    BY <1>1, <1>2 DEF RTypeOK
  <2>3. \A q \in Procs : /\ hand'[q] # NoId <=> call'[q] \in {"numbered", "popped"}
                         /\ q \notin up' => call'[q] = "none" /\ claim'[q] = NoId
    BY <1>1, <1>2, <1>4 DEF RTypeOK
  <2> QED
    BY <1>4, <1>5, <2>1, <2>2, <2>3 DEF RTypeOK
<1>8. BehindInv' /\ NoDoubles' /\ Apart' /\ Accounted' /\ SoloInv'
  BY <1>1, <1>2, <1>3, <1>4 DEF BehindInv, NoDoubles, Apart, Accounted, SoloInv
<1>9. OvershootByOneEach'
  <2>1. Entering' \subseteq Entering
    BY <1>1, <1>2, <1>4 DEF Entering
  <2> QED
    BY <1>1, <1>3, <2>1, OvershootKept DEF RTypeOK
<1> QED
  BY <1>6, <1>7, <1>8, <1>9

LEMMA NextRedis == RedisInv /\ [RNext]_rvars => RedisInv'
<1> SUFFICES ASSUME RedisInv, [RNext]_rvars PROVE RedisInv'
  OBVIOUS
<1>1. CASE UNCHANGED rvars
  <2>1. UNCHANGED <<jobs, inflight, counter, up, call, hand, claim, left, asked, carried,
                    done, purged, dropped, stranded, resent, solo, hidden>>
    BY <1>1 DEF rvars, redis, procs, rhist, fates
  <2>2. Pending' = Pending /\ Hands' = Hands /\ Claims' = Claims /\ Ended' = Ended
        /\ Entering' = Entering
    BY <2>1 DEF Pending, Hands, Claims, Ended, Entering
  <2>3. RTypeOK'
    BY <2>1 DEF RedisInv, RTypeOK, InFlightIsKnown
  <2>4. BehindInv' /\ NoDoubles' /\ Apart' /\ Accounted' /\ SoloInv'
    BY <2>1, <2>2 DEF RedisInv, BehindInv, NoDoubles, Apart, Accounted, SoloInv
  <2>5. OvershootByOneEach' /\ NotFoundOnlyIfGone'
    BY <2>1, <2>2 DEF RedisInv, OvershootByOneEach, NotFoundOnlyIfGone
  <2> QED
    BY <2>3, <2>4, <2>5 DEF RedisInv
<1>2. CASE RNext
  <2>1. PICK p \in Procs :
          \/ \E i \in 1..counter : Look(p, i)
          \/ Method(p) /\ asked' = IF \E q \in Procs : call'[q] = "looking" THEN asked ELSE NoId
    BY <1>2 DEF RNext
  <2>2. carried' = (asked' # NoId /\ (carried \/ \E q \in Procs : hand'[q] = asked'))
    BY <1>2 DEF RNext
  <2>3. CASE \E i \in 1..counter : Look(p, i)
    BY <2>2, <2>3, LookKeepsInv
  <2>4. ASSUME Method(p), Follows PROVE RedisInv'
    <3>1. CASE Count(p) \/ Answer(p) \/ Start(p)
      BY <2>4, <3>1, ReadKeepsInv
    <3>2. CASE Number(p)
      BY <2>4, <3>2, NumberKeepsInv
    <3>3. CASE Push(p)
      BY <2>4, <3>3, PushKeepsInv
    <3>4. CASE EnqueueIfIdle(p)
      BY <2>4, <3>4, EnqueueIfIdleKeepsInv
    <3>5. CASE Pop(p)
      BY <2>4, <3>5, PopKeepsInv
    <3>6. CASE Track(p)
      BY <2>4, <3>6, TrackKeepsInv
    <3>7. CASE Complete(p) \/ CompleteRaises(p)
      BY <2>4, <3>7, CompleteKeepsInv
    <3>8. CASE Purge(p)
      BY <2>4, <3>8, PurgeKeepsInv
    <3>9. CASE Raise(p)
      BY <2>4, <3>9, RaiseKeepsInv
    <3>10. CASE Crash(p)
      BY <2>4, <3>10, CrashKeepsInv
    <3> QED
      BY <2>4, <3>1, <3>2, <3>3, <3>4, <3>5, <3>6, <3>7, <3>8, <3>9, <3>10 DEF Method
  <2> QED
    BY <2>1, <2>2, <2>3, <2>4 DEF Follows
<1> QED
  BY <1>1, <1>2

-------------------------------------------------------------------------------
(* What follows from the invariant *)

\* An id that was not pushed twice is in one place.
LEMMA OnePlace == RedisInv => OnePlaceUnlessResent
<1> USE DEF RedisInv
<1> SUFFICES ASSUME RedisInv, NEW i \in 1..counter, i \notin resent
             PROVE  Cardinality(Where(i)) = 1
  BY DEF OnePlaceUnlessResent
<1>1. i # NoId
  <2>1. counter \in Nat
    BY RedisAssumption DEF RedisAssumption, RTypeOK
  <2> QED
    BY <2>1 DEF NoId
<1>2. \A w : w \in Where(i) <=>
        \/ \E k \in DOMAIN jobs : jobs[k] = i /\ w = <<"list", k>>
        \/ \E q \in Procs : hand[q] = i /\ w = <<"hand", q>>
        \/ \E q \in Procs : claim[q] = i /\ w = <<"worker", q>>
        \/ i \in done /\ w = <<"done", i>>
        \/ i \in purged /\ w = <<"purged", i>>
        \/ i \in dropped /\ w = <<"dropped", i>>
        \/ i \in stranded /\ w = <<"stranded", i>>
  BY DEF Where
<1>3. /\ i \in Pending <=> \E k \in DOMAIN jobs : jobs[k] = i
      /\ i \in Hands <=> \E q \in Procs : hand[q] = i
      /\ i \in Claims <=> \E q \in Procs : claim[q] = i
  BY <1>1, Members
<1>4. i \in Pending \cup Hands \cup Claims \cup done \cup purged \cup dropped \cup stranded
  BY DEF Accounted, Ended
<1>5. \E w : Where(i) = {w}
  <2>1. CASE i \in Pending
    <3>1. i \notin Hands \cup Claims \cup done \cup purged \cup dropped \cup stranded
      BY <2>1 DEF Apart, Ended
    <3>2. PICK k \in DOMAIN jobs : jobs[k] = i
      BY <1>3, <2>1
    <3>3. \A n \in DOMAIN jobs : jobs[n] = i => n = k
      BY <3>2 DEF NoDoubles
    <3> WITNESS <<"list", k>>
    <3> QED
      BY <1>2, <1>3, <3>1, <3>2, <3>3
  <2>2. CASE i \in Hands
    <3>1. i \notin Pending \cup Claims \cup done \cup purged \cup dropped \cup stranded
      BY <2>2 DEF Apart, Ended
    <3>2. PICK p \in Procs : hand[p] = i
      BY <1>3, <2>2
    <3>3. \A q \in Procs : hand[q] = i => q = p
      BY <1>1, <3>2 DEF NoDoubles
    <3> WITNESS <<"hand", p>>
    <3> QED
      BY <1>2, <1>3, <3>1, <3>2, <3>3
  <2>3. CASE i \in Claims
    <3>1. i \notin Pending \cup Hands \cup done \cup purged \cup dropped \cup stranded
      BY <2>3 DEF Apart, Ended
    <3>2. PICK p \in Procs : claim[p] = i
      BY <1>3, <2>3
    <3>3. \A q \in Procs : claim[q] = i => q = p
      BY <1>1, <3>2 DEF NoDoubles
    <3> WITNESS <<"worker", p>>
    <3> QED
      BY <1>2, <1>3, <3>1, <3>2, <3>3
  <2>4. CASE i \in done
    <3>1. i \notin Pending \cup Hands \cup Claims \cup purged \cup dropped \cup stranded
      BY <2>4 DEF Apart, Ended
    <3> WITNESS <<"done", i>>
    <3> QED
      BY <1>2, <1>3, <2>4, <3>1
  <2>5. CASE i \in purged
    <3>1. i \notin Pending \cup Hands \cup Claims \cup done \cup dropped \cup stranded
      BY <2>5 DEF Apart, Ended
    <3> WITNESS <<"purged", i>>
    <3> QED
      BY <1>2, <1>3, <2>5, <3>1
  <2>6. CASE i \in dropped
    <3>1. i \notin Pending \cup Hands \cup Claims \cup done \cup purged \cup stranded
      BY <2>6 DEF Apart, Ended
    <3> WITNESS <<"dropped", i>>
    <3> QED
      BY <1>2, <1>3, <2>6, <3>1
  <2>7. CASE i \in stranded
    <3>1. i \notin Pending \cup Hands \cup Claims \cup done \cup purged \cup dropped
      BY <2>7 DEF Apart, Ended
    <3> WITNESS <<"stranded", i>>
    <3> QED
      BY <1>2, <1>3, <2>7, <3>1
  <2> QED
    BY <1>4, <2>1, <2>2, <2>3, <2>4, <2>5, <2>6, <2>7
<1> QED
  BY <1>5, FS_Singleton

-------------------------------------------------------------------------------
(* The theorems *)

\* The invariant: types, where ids may be, what enqueue_if_idle overlooked and
\* what a position() call may miss, with any number of processes, and with
\* crashes, commands that raise and replies that are lost.
THEOREM RedisInvariant == RSpec => []RedisInv
<1>1. RInit => RedisInv
  BY InitRedis
<1>2. RedisInv /\ [RNext]_rvars => RedisInv'
  BY NextRedis
<1> QED
  BY <1>1, <1>2, PTL DEF RSpec

\* The types, and that Redis knows as in flight exactly the jobs that workers
\* handle and those whose worker is gone.
THEOREM RedisTypes == RSpec => []RTypeOK
<1>1. RedisInv => RTypeOK
  BY DEF RedisInv
<1> QED
  BY <1>1, RedisInvariant, PTL

\* A job is in one place at a time and is never handled again after its end,
\* unless its RPUSH was sent twice: LPOP gives it to one worker, and no crash,
\* error or purge makes a second copy of it.
THEOREM OneCopyUnlessResent == RSpec => []OnePlaceUnlessResent
<1> QED
  BY RedisInvariant, OnePlace, PTL

\* LLEN, INCR and RPUSH are apart, and yet all processes together exceed
\* queue_max_size by at most one job for each but the first.
THEOREM LimitIsExceededByOneEach == RSpec => []OvershootByOneEach
<1>1. RedisInv => OvershootByOneEach
  BY DEF RedisInv
<1> QED
  BY <1>1, RedisInvariant, PTL

\* The script of enqueue_if_idle sees every job but those that a method has
\* in its hand.
THEOREM SoloOverlooksOnlyCalls == RSpec => []SoloSeesAllButCalls
<1>1. RedisInv => SoloSeesAllButCalls
  BY DEF RedisInv, SoloInv, SoloSeesAllButCalls
<1> QED
  BY <1>1, RedisInvariant, PTL

\* position() answers None only for a job that is done, purged or lost, or
\* that some method had in its hand during the call.
THEOREM NoneMeansGoneOrCarried == RSpec => []NotFoundOnlyIfGone
<1>1. RedisInv => NotFoundOnlyIfGone
  BY DEF RedisInv
<1> QED
  BY <1>1, RedisInvariant, PTL
===============================================================================
