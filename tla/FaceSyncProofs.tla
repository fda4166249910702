----------------------------- MODULE FaceSyncProofs -----------------------------
(***************************************************************************)
(* What holds of the embedding store next to detections and to Lychee's    *)
(* requests: for any number of workers, photos and faces, and for both     *)
(* upserts.                                                                *)
(***************************************************************************)
EXTENDS FaceSync, FiniteSetTheorems, WellFoundedInduction, TLAPS

-------------------------------------------------------------------------------
(* Counting *)

\* More of the same does not weigh less.
LEMMA TimesIsMonotonic ==
  ASSUME NEW i \in Nat, NEW j \in Nat, NEW n \in Nat, i <= j
  PROVE  i * n <= j * n
<1>1. PICK d \in Nat : j = i + d
  <2>1. j - i \in Nat /\ j = i + (j - i)
    OBVIOUS
  <2> QED
    BY <2>1
<1>2. j * n = i * n + d * n
  BY <1>1
<1>3. d * n \in Nat /\ i * n \in Nat
  OBVIOUS
<1> QED
  BY <1>2, <1>3

\* Two sets together have at most as many elements as they have apart.
LEMMA UnionOfTwo ==
  ASSUME NEW S, IsFiniteSet(S), NEW T, IsFiniteSet(T)
  PROVE  IsFiniteSet(S \cup T) /\ Cardinality(S \cup T) <= Cardinality(S) + Cardinality(T)
<1>1. IsFiniteSet(S \cap T)
  BY FS_Intersection
<1>2. Cardinality(S \cap T) \in Nat /\ Cardinality(S) \in Nat /\ Cardinality(T) \in Nat
  BY <1>1, FS_CardinalityType
<1>3. /\ IsFiniteSet(S \cup T)
      /\ Cardinality(S \cup T) = Cardinality(S) + Cardinality(T) - Cardinality(S \cap T)
  BY FS_Union
<1> QED
  BY <1>2, <1>3

\* The union of sets of at most n elements has at most n for each of them.
LEMMA UnionBound ==
  ASSUME NEW W, IsFiniteSet(W), NEW f, NEW n \in Nat,
         \A w \in W : IsFiniteSet(f[w]) /\ Cardinality(f[w]) <= n
  PROVE  /\ IsFiniteSet(UNION {f[w] : w \in W})
         /\ Cardinality(UNION {f[w] : w \in W}) <= Cardinality(W) * n
<1> DEFINE All(V)  == UNION {f[w] : w \in V}
           Good(V) == IsFiniteSet(All(V)) /\ Cardinality(All(V)) <= Cardinality(V) * n
           Bad     == {V \in SUBSET W : ~ Good(V)}
<1> HIDE DEF Good
<1>1. CASE Bad = {}
  <2>1. W \in SUBSET W /\ W \notin Bad
    BY <1>1
  <2> QED
    BY <2>1 DEF Good
<1>2. CASE Bad # {}
  <2>1. IsWellFoundedOn(StrictSubsetOrdering(W), SUBSET W)
    BY FS_StrictSubsetOrderingWellFounded, FS_FiniteSubsetsOfFinite
  <2>2. PICK V \in Bad : \A U \in Bad : <<U, V>> \notin StrictSubsetOrdering(W)
    <3> HIDE DEF Bad
    <3>1. Bad \subseteq SUBSET W
      BY DEF Bad
    <3> QED
      BY <1>2, <2>1, <3>1, WFMin
  <2>3. IsFiniteSet(V) /\ V \subseteq W /\ ~ Good(V)
    BY FS_Subset
  <2>4. V # {}
    <3>1. SUFFICES ASSUME V = {} PROVE FALSE
      OBVIOUS
    <3>2. All(V) = {}
      BY <3>1
    <3>3. Cardinality(All(V)) = 0 /\ Cardinality(V) * n = 0 /\ IsFiniteSet(All(V))
      BY <3>1, <3>2, FS_EmptySet
    <3> QED
      BY <2>3, <3>3 DEF Good
  <2>5. PICK v \in V : TRUE
    BY <2>4
  <2>6. Good(V \ {v})
    <3>1. <<V \ {v}, V>> \in StrictSubsetOrdering(W)
      BY <2>3, <2>5 DEF StrictSubsetOrdering
    <3> QED
      BY <2>2, <2>3, <3>1
  <2>7. All(V) = All(V \ {v}) \cup f[v]
    BY <2>5
  <2>8. /\ IsFiniteSet(All(V \ {v})) /\ IsFiniteSet(f[v])
        /\ Cardinality(All(V \ {v})) <= Cardinality(V \ {v}) * n /\ Cardinality(f[v]) <= n
    BY <2>3, <2>5, <2>6 DEF Good
  <2>9. /\ IsFiniteSet(All(V))
        /\ Cardinality(All(V)) <= Cardinality(All(V \ {v})) + Cardinality(f[v])
    <3> HIDE DEF All
    <3> QED
      BY <2>7, <2>8, UnionOfTwo
  <2>10. Cardinality(V \ {v}) = Cardinality(V) - 1 /\ Cardinality(V) \in Nat
         /\ Cardinality(V \ {v}) \in Nat
    BY <2>3, <2>5, FS_RemoveElement, FS_CardinalityType
  <2>11. Cardinality(V) * n = Cardinality(V \ {v}) * n + n
    BY <2>10
  <2>12. /\ Cardinality(All(V)) \in Nat /\ Cardinality(All(V \ {v})) \in Nat
         /\ Cardinality(f[v]) \in Nat
    BY <2>8, <2>9, FS_CardinalityType
  <2> QED
    <3> HIDE DEF All
    <3>1. Cardinality(V \ {v}) * n \in Nat
      BY <2>10
    <3>2. Cardinality(All(V)) <= Cardinality(V) * n
      BY <2>8, <2>9, <2>11, <2>12, <3>1
    <3> QED
      BY <2>3, <2>9, <3>2 DEF Good
<1> QED
  BY <1>1, <1>2

\* Faces are numbers, and finitely many.
LEMMA FacesAreNumbers == Faces \subseteq Nat /\ IsFiniteSet(Faces)
  BY DetectionAssumption, StoreAssumption, FS_CardinalityType
     DEF DetectionAssumption, StoreAssumption, MaxFace

-------------------------------------------------------------------------------
(* Detections *)

\* What a handler or the store has of a photo.
LEMMA HeldIs ==
  ASSUME NEW p
  PROVE  /\ \A f : f \in Held(p) <=>
               \/ f \in Faces /\ row[f] = p
               \/ \E w \in Workers : photo[w] = p /\ f \in mapping[w]
         /\ \A f : f \in Held(p)' <=>
               \/ f \in Faces /\ row'[f] = p
               \/ \E w \in Workers : photo'[w] = p /\ f \in mapping'[w]
  BY DEF Held, OfPhoto

\* The sets that StoredBound counts are finite.
LEMMA HeldAndPastAreFinite ==
  ASSUME DTypeOK, NEW p
  PROVE  /\ IsFiniteSet(Held(p)) /\ Cardinality(Held(p)) \in Nat
         /\ IsFiniteSet(Past(p)) /\ Cardinality(Past(p)) \in Nat
         /\ IsFiniteSet(Workers) /\ Cardinality(Workers) \in Nat
<1>1. Held(p) \subseteq Faces /\ Past(p) \subseteq Workers
  BY HeldIs DEF DTypeOK, Past
<1>2. IsFiniteSet(Workers) /\ IsFiniteSet(Faces)
  BY FacesAreNumbers, DetectionAssumption DEF DetectionAssumption
<1>3. IsFiniteSet(Held(p)) /\ IsFiniteSet(Past(p))
  BY <1>1, <1>2, FS_Subset
<1> QED
  BY <1>2, <1>3, FS_CardinalityType

\* What StoredBound says of one photo.
Fits(p) ==
    Cardinality(Held(p)) + Cardinality(Past(p)) * Found[p] <= Cardinality(Workers) * Found[p]

\* A step after which a photo has no other faces and no other handlers that
\* may add some keeps the bound.
LEMMA BoundKeptFor ==
  ASSUME DTypeOK, StoredBound, NEW p \in Photos,
         Held(p)' \subseteq Held(p), Past(p)' \subseteq Past(p)
  PROVE  Fits(p)'
<1>1. /\ IsFiniteSet(Held(p)) /\ Cardinality(Held(p)) \in Nat
      /\ IsFiniteSet(Past(p)) /\ Cardinality(Past(p)) \in Nat
      /\ Cardinality(Workers) \in Nat /\ Found[p] \in Nat
  BY HeldAndPastAreFinite, DetectionAssumption DEF DetectionAssumption
<1>2. /\ IsFiniteSet(Held(p)') /\ Cardinality(Held(p)') <= Cardinality(Held(p))
      /\ IsFiniteSet(Past(p)') /\ Cardinality(Past(p)') <= Cardinality(Past(p))
  BY <1>1, FS_Subset
<1>3. Cardinality(Held(p)') \in Nat /\ Cardinality(Past(p)') \in Nat
  BY <1>2, FS_CardinalityType
<1>4. Cardinality(Past(p)') * Found[p] <= Cardinality(Past(p)) * Found[p]
  BY <1>1, <1>2, <1>3, TimesIsMonotonic
<1>5. /\ Cardinality(Past(p)') * Found[p] \in Nat /\ Cardinality(Past(p)) * Found[p] \in Nat
      /\ Cardinality(Workers) * Found[p] \in Nat
  BY <1>1, <1>3
<1>6. Cardinality(Held(p)) + Cardinality(Past(p)) * Found[p] <= Cardinality(Workers) * Found[p]
  BY DEF StoredBound
<1>7. Cardinality(Held(p)') + Cardinality(Past(p)') * Found[p]
        <= Cardinality(Workers) * Found[p]
  BY <1>1, <1>2, <1>3, <1>4, <1>5, <1>6
<1> QED
  BY <1>7 DEF Fits

\* The same for all photos.
LEMMA BoundKept ==
  ASSUME DTypeOK, StoredBound,
         \A p \in Photos : Held(p)' \subseteq Held(p) /\ Past(p)' \subseteq Past(p)
  PROVE  StoredBound'
  BY BoundKeptFor DEF StoredBound, Fits

\* Nothing is stored, asked for or in hand at first.
LEMMA InitDetection == DInit => DetectionInv
<1> SUFFICES ASSUME DInit PROVE DetectionInv
  OBVIOUS
<1>1. DTypeOK
  BY DetectionAssumption, StoreAssumption
     DEF DetectionAssumption, StoreAssumption, DInit, InitStore, DTypeOK, StoreTypeOK,
         RowsHaveCrops, Stored, Steps, Persisting, Calling
<1>2. MappingInv
  BY DEF DInit, MappingInv
<1>3. StoredBound
  <2> SUFFICES ASSUME NEW p \in Photos
               PROVE  Cardinality(Held(p)) + Cardinality(Past(p)) * Found[p]
                        <= Cardinality(Workers) * Found[p]
    BY DEF StoredBound
  <2>1. Held(p) = {} /\ Past(p) = {}
    BY HeldIs, StoreAssumption DEF StoreAssumption, DInit, InitStore, Past
  <2>2. Cardinality(Held(p)) = 0 /\ Cardinality(Past(p)) = 0
    BY <2>1, FS_EmptySet
  <2>3. Cardinality(Workers) \in Nat /\ Found[p] \in Nat
    BY <1>1, HeldAndPastAreFinite, DetectionAssumption DEF DetectionAssumption
  <2>4. 0 * Found[p] = 0 /\ Cardinality(Workers) * Found[p] \in Nat
    BY <2>3
  <2> QED
    BY <2>2, <2>4
<1>4. AnsweredOrUnheard
  BY DEF DInit, AnsweredOrUnheard
<1> QED
  BY <1>1, <1>2, <1>3, <1>4 DEF DetectionInv

\* Steps of a handler that neither take a job nor create or store a face.
LEMMA QuietStepKeepsInv ==
  ASSUME DetectionInv, NEW w \in Workers,
         \/ Detected(w) \/ DeliverEmpty(w) \/ NothingToPersist(w) \/ SaveCrop(w)
         \/ Raise(w) \/ DeliverError(w) \/ Finish(w)
  PROVE  DetectionInv'
<1> USE DEF DetectionInv
<1>1. /\ UNCHANGED <<store, jobs, photoOf, known>>
      /\ crops \subseteq crops' /\ crops' \subseteq Faces
      /\ asked' \subseteq Photos /\ left' \in [Kinds -> Nat]
      /\ abandoned' \subseteq Faces /\ orphaned' = orphaned /\ unheard' \subseteq Photos
  BY DEF Detected, DeliverEmpty, NothingToPersist, SaveCrop, Raise, DeliverError, Finish,
         Hears, lychee, dhist, handler, DTypeOK, Spend, Persisting, Calling
<1>2. /\ mapping'[w] \subseteq mapping[w] /\ mapping'[w] \in {{}, mapping[w]}
      /\ photo'[w] \in {NoPhoto, photo[w]} /\ pc'[w] \in Steps
      /\ pc'[w] \in {"detect", "post"} => pc[w] \in {"detect", "post"} /\ photo'[w] = photo[w]
      /\ pc' \in [Workers -> Steps]
      /\ photo' \in [Workers -> Photos \cup {NoPhoto}]
      /\ mapping' \in [Workers -> SUBSET Faces]
      /\ \A v \in Workers \ {w} :
            pc'[v] = pc[v] /\ photo'[v] = photo[v] /\ mapping'[v] = mapping[v]
  BY DEF Detected, DeliverEmpty, NothingToPersist, SaveCrop, Raise, DeliverError, Finish,
         lychee, dhist, handler, DTypeOK, Goto, Steps, Persisting, Calling
<1>3. /\ photo'[w] = NoPhoto <=> pc'[w] = "idle"
      /\ mapping'[w] # {} => pc'[w] \in {"ack"} \cup Persisting
      /\ pc'[w] \in Persisting => mapping'[w] # {} /\ Turn(w)
  BY DEF Detected, DeliverEmpty, NothingToPersist, SaveCrop, Raise, DeliverError, Finish,
         lychee, dhist, handler, DTypeOK, Goto, Steps, Persisting, Calling
<1>4. pc'[w] = "add" => \E f \in mapping'[w] \cap crops' : \A g \in mapping'[w] : f <= g
  BY DEF Detected, DeliverEmpty, NothingToPersist, SaveCrop, Raise, DeliverError, Finish,
         DTypeOK, Goto
<1>5. DTypeOK'
  BY <1>1, <1>2, <1>3 DEF DTypeOK, StoreTypeOK, RowsHaveCrops, Stored, store, Turn
<1>6. MappingInv'
  <2>1. \A v \in Workers : \A f \in mapping'[v] : photoOf'[f] = photo'[v]
    BY <1>1, <1>2, <1>3 DEF MappingInv, DTypeOK, Persisting
  <2>2. \A v \in Workers : mapping'[v] # {} => Cardinality(mapping'[v]) <= Found[photo'[v]]
    BY <1>1, <1>2, <1>3 DEF MappingInv, DTypeOK, Persisting
  <2>3. \A v \in Workers : pc'[v] = "add" =>
           \E f \in mapping'[v] \cap crops' : \A g \in mapping'[v] : f <= g
    BY <1>1, <1>2, <1>4 DEF MappingInv
  <2> QED
    BY <1>1, <2>1, <2>2, <2>3 DEF MappingInv, Unmade
<1>7. StoredBound'
  <2>1. ASSUME NEW p \in Photos
        PROVE  Held(p)' \subseteq Held(p) /\ Past(p)' \subseteq Past(p)
    <3>1. \A v \in Workers : photo'[v] = p => photo[v] = p /\ mapping'[v] \subseteq mapping[v]
      BY <1>2, StoreAssumption DEF StoreAssumption
    <3>2. row' = row
      BY <1>1 DEF store
    <3> QED
      BY <1>2, <3>1, <3>2, HeldIs DEF Past
  <2> QED
    BY <2>1, BoundKept
<1>8. AnsweredOrUnheard'
  <2> SUFFICES ASSUME NEW p \in asked', jobs'[p] = 0, p \notin unheard'
               PROVE  \E v \in Workers : photo'[v] = p /\ pc'[v] \in Calling \cup {"detect"}
    BY <1>1, <1>5 DEF AnsweredOrUnheard, DTypeOK
  <2>1. p \in asked /\ p \notin unheard /\ p \in Photos
    BY <1>1 DEF Detected, DeliverEmpty, NothingToPersist, SaveCrop, Raise, DeliverError,
                Finish, Hears, lychee, dhist
  <2>2. PICK v \in Workers : photo[v] = p /\ pc[v] \in Calling \cup {"detect"}
    BY <1>1, <2>1 DEF AnsweredOrUnheard
  <2>3. CASE v # w
    BY <1>2, <2>2, <2>3
  <2>4. CASE v = w
    BY <2>1, <2>2, <2>4 DEF Detected, DeliverEmpty, NothingToPersist, SaveCrop, Raise,
         DeliverError, Finish, Hears, lychee, dhist, handler, Goto, Calling, Persisting,
         DTypeOK
  <2> QED
    BY <2>3, <2>4
<1> QED
  BY <1>5, <1>6, <1>7, <1>8

\* An idle worker leaves room for one more set of faces.
LEMMA IdleLeavesRoom ==
  ASSUME DetectionInv, NEW w \in Workers, pc[w] = "idle", NEW p \in Photos, OfPhoto(p) = {}
  PROVE  Cardinality(Held(p)) + (Cardinality(Past(p)) + 1) * Found[p]
           <= Cardinality(Workers) * Found[p]
<1> DEFINE H == {v \in Workers : photo[v] = p /\ mapping[v] # {}}
           n == Found[p]
<1>1. IsFiniteSet(H) /\ IsFiniteSet(Past(p)) /\ IsFiniteSet(Workers)
  BY HeldAndPastAreFinite, FS_Subset DEF DetectionInv
<1>2. \A v \in H : IsFiniteSet(mapping[v]) /\ Cardinality(mapping[v]) <= n
  <2> TAKE v \in H
  <2>1. mapping[v] \subseteq Faces
    BY DEF DetectionInv, DTypeOK
  <2>2. Cardinality(mapping[v]) <= n
    BY DEF DetectionInv, MappingInv
  <2> QED
    BY <2>1, <2>2, FacesAreNumbers, FS_Subset
<1>3. Cardinality(Held(p)) <= Cardinality(H) * n
  <2>1. Held(p) = UNION {mapping[v] : v \in H}
    BY DEF Held
  <2>2. n \in Nat
    BY DetectionAssumption DEF DetectionAssumption
  <2> HIDE DEF H, n
  <2> QED
    BY <1>1, <1>2, <2>1, <2>2, UnionBound
<1>4. H \cap Past(p) = {} /\ w \notin H \cup Past(p) /\ H \cup Past(p) \subseteq Workers
  BY DEF DetectionInv, DTypeOK, Past, Persisting
<1>5. Cardinality(H) + Cardinality(Past(p)) + 1 <= Cardinality(Workers)
  <2> HIDE DEF H
  <2>1. Cardinality(H \cap Past(p)) = 0
    BY <1>4, FS_EmptySet
  <2>2. Cardinality(H) \in Nat /\ Cardinality(Past(p)) \in Nat
    BY <1>1, FS_CardinalityType
  <2>3. /\ IsFiniteSet(H \cup Past(p))
        /\ Cardinality(H \cup Past(p)) = Cardinality(H) + Cardinality(Past(p))
                                           - Cardinality(H \cap Past(p))
    BY <1>1, FS_Union
  <2>4. Cardinality((H \cup Past(p)) \cup {w}) = Cardinality(H \cup Past(p)) + 1
    BY <1>4, <2>3, FS_AddElement
  <2>5. (H \cup Past(p)) \cup {w} \in SUBSET Workers
    BY <1>4
  <2>6. Cardinality((H \cup Past(p)) \cup {w}) <= Cardinality(Workers)
    BY <1>1, <2>5, FS_Subset
  <2> QED
    BY <2>1, <2>2, <2>3, <2>4, <2>6
<1>6. /\ Cardinality(H) \in Nat /\ Cardinality(Past(p)) \in Nat /\ n \in Nat
      /\ Cardinality(Workers) \in Nat /\ Cardinality(Held(p)) \in Nat
  BY <1>1, FS_CardinalityType, HeldAndPastAreFinite, DetectionAssumption
     DEF DetectionAssumption, DetectionInv
<1> HIDE DEF H, n
<1>7. (Cardinality(H) + Cardinality(Past(p)) + 1) * n <= Cardinality(Workers) * n
  BY <1>5, <1>6, TimesIsMonotonic
<1>8. (Cardinality(H) + Cardinality(Past(p)) + 1) * n
        = Cardinality(H) * n + (Cardinality(Past(p)) + 1) * n
  BY <1>6
<1>9. /\ Cardinality(H) * n \in Nat /\ (Cardinality(Past(p)) + 1) * n \in Nat
      /\ Cardinality(Workers) * n \in Nat
  BY <1>6
<1>10. Cardinality(Held(p)) + (Cardinality(Past(p)) + 1) * n <= Cardinality(Workers) * n
  BY <1>3, <1>6, <1>7, <1>8, <1>9
<1> QED
  BY <1>10 DEF n

\* A handler that takes a job and finds no face of its photo may add a set.
LEMMA BeginKeepsInv ==
  ASSUME DetectionInv, NEW w \in Workers, NEW p \in Photos, Begin(w, p)
  PROVE  DetectionInv'
<1> USE DEF DetectionInv
<1>1. /\ UNCHANGED <<store, mapping, crops, lychee, left, dhist>>
      /\ jobs' = [jobs EXCEPT ![p] = @ - 1] /\ jobs[p] > 0
      /\ pc[w] = "idle" /\ photo[w] = NoPhoto /\ mapping[w] = {} /\ photo'[w] = p
      /\ pc'[w] = IF OfPhoto(p) = {} THEN "detect" ELSE "postEmpty"
      /\ pc' \in [Workers -> Steps]
      /\ photo' \in [Workers -> Photos \cup {NoPhoto}]
      /\ \A v \in Workers \ {w} : pc'[v] = pc[v] /\ photo'[v] = photo[v]
  BY DEF Begin, Goto, DTypeOK, Steps, Calling, Persisting
<1>2. DTypeOK'
  BY <1>1, StoreAssumption DEF StoreAssumption, DTypeOK, StoreTypeOK, RowsHaveCrops, Stored,
     store, lychee, dhist, Persisting
<1>3. MappingInv'
  BY <1>1 DEF MappingInv, lychee, Unmade
<1>4. StoredBound'
  <2> SUFFICES ASSUME NEW q \in Photos
               PROVE  Fits(q)'
    BY DEF StoredBound, Fits
  <2>1. Held(q)' \subseteq Held(q)
    BY <1>1, HeldIs DEF store
  <2>2. CASE q # p \/ OfPhoto(p) # {}
    <3>1. Past(q)' \subseteq Past(q)
      BY <1>1, <2>2 DEF Past
    <3> QED
      BY <2>1, <3>1, BoundKeptFor
  <2>3. CASE q = p /\ OfPhoto(p) = {}
    <3>1. Past(p)' = Past(p) \cup {w} /\ w \notin Past(p)
      BY <1>1, <2>3, StoreAssumption DEF StoreAssumption, Past
    <3>2. /\ IsFiniteSet(Held(p)) /\ Cardinality(Held(p)) \in Nat
          /\ IsFiniteSet(Past(p)) /\ Cardinality(Past(p)) \in Nat
          /\ Cardinality(Workers) \in Nat /\ Found[p] \in Nat
      BY HeldAndPastAreFinite, DetectionAssumption DEF DetectionAssumption
    <3>3. Cardinality(Past(p)') = Cardinality(Past(p)) + 1
      BY <3>1, <3>2, FS_AddElement
    <3>4. Cardinality(Held(p)') <= Cardinality(Held(p)) /\ Cardinality(Held(p)') \in Nat
      BY <2>1, <2>3, <3>2, FS_Subset, FS_CardinalityType
    <3>5. Cardinality(Held(p)) + (Cardinality(Past(p)) + 1) * Found[p]
            <= Cardinality(Workers) * Found[p]
      BY <1>1, <2>3, IdleLeavesRoom
    <3>6. /\ (Cardinality(Past(p)) + 1) * Found[p] \in Nat
          /\ Cardinality(Workers) * Found[p] \in Nat
      BY <3>2
    <3>7. Cardinality(Held(p)') + (Cardinality(Past(p)) + 1) * Found[p]
            <= Cardinality(Workers) * Found[p]
      BY <3>2, <3>4, <3>5, <3>6
    <3> QED
      BY <2>3, <3>3, <3>7 DEF Fits
  <2> QED
    BY <2>2, <2>3
<1>5. AnsweredOrUnheard'
  <2> SUFFICES ASSUME NEW q \in asked, jobs'[q] = 0, q \notin unheard
               PROVE  \E v \in Workers : photo'[v] = q /\ pc'[v] \in Calling \cup {"detect"}
    BY <1>1, <1>2 DEF AnsweredOrUnheard, DTypeOK, lychee, dhist
  <2>1. CASE q = p
    BY <1>1, <2>1 DEF Calling
  <2>2. CASE q # p
    <3>1. jobs[q] = 0
      BY <1>1, <2>2 DEF DTypeOK
    <3>2. PICK v \in Workers : photo[v] = q /\ pc[v] \in Calling \cup {"detect"}
      BY <3>1 DEF AnsweredOrUnheard
    <3> QED
      BY <1>1, <3>2 DEF Calling
  <2> QED
    BY <2>1, <2>2
<1> QED
  BY <1>2, <1>3, <1>4, <1>5

\* The set of faces that the callback brings takes the place that its handler
\* had reserved.
LEMMA DeliverKeepsInv ==
  ASSUME DetectionInv, NEW w \in Workers, Deliver(w)
  PROVE  DetectionInv'
<1> USE DEF DetectionInv
<1> DEFINE p == photo[w]
<1>1. PICK S \in SUBSET ({f \in known : photoOf[f] = p} \cup Unmade) :
         /\ Cardinality(S) = Found[p]
         /\ mapping' = [mapping EXCEPT ![w] = S]
         /\ photoOf' = [f \in Faces |-> IF f \in S THEN p ELSE photoOf[f]]
         /\ known' = known \cup S
  BY DEF Deliver
<1>2. /\ UNCHANGED <<store, jobs, photo, crops, left, abandoned, orphaned>>
      /\ asked' = asked \ {p} /\ unheard' = unheard \ {p}
      /\ pc[w] = "post" /\ pc'[w] = "ack" /\ p \in Photos /\ mapping[w] = {}
      /\ pc' \in [Workers -> Steps] /\ \A v \in Workers \ {w} : pc'[v] = pc[v]
  BY DEF Deliver, Hears, Goto, DTypeOK, Steps, Persisting
<1>3. /\ S \subseteq Faces /\ mapping'[w] = S /\ mapping' \in [Workers -> SUBSET Faces]
      /\ \A v \in Workers \ {w} : mapping'[v] = mapping[v]
      /\ \A f \in Faces : photoOf[f] # NoPhoto => photoOf'[f] = photoOf[f]
      /\ \A f \in S : photoOf'[f] = p
      /\ photoOf' \in [Faces -> Photos \cup {NoPhoto}]
  BY <1>1, <1>2 DEF DTypeOK, Unmade
<1>4. DTypeOK'
  <2>1. RowsHaveCrops'
    BY <1>2, <1>3 DEF DTypeOK, RowsHaveCrops, Stored, store
  <2>2. asked' \subseteq Photos /\ known' \subseteq Faces
    BY <1>1, <1>2, <1>3 DEF DTypeOK
  <2> QED
    BY <1>2, <1>3, <2>1, <2>2, StoreAssumption
       DEF StoreAssumption, DTypeOK, StoreTypeOK, Stored, store, Persisting
<1>5. MappingInv'
  <2>1. ASSUME NEW v \in Workers, NEW f \in mapping'[v]
        PROVE  photoOf'[f] = photo'[v]
    <3>1. CASE v = w
      BY <1>2, <1>3, <3>1
    <3>2. CASE v # w
      <4>1. f \in mapping[v] /\ f \in Faces /\ photoOf[f] = photo[v] /\ photo[v] # NoPhoto
        BY <1>3, <3>2 DEF MappingInv, DTypeOK, Persisting
      <4> QED
        BY <1>2, <1>3, <4>1
    <3> QED
      BY <3>1, <3>2
  <2>2. \A v \in Workers : mapping'[v] # {} => Cardinality(mapping'[v]) <= Found[photo'[v]]
    <3>1. Found[p] <= Found[p]
      BY <1>2, DetectionAssumption DEF DetectionAssumption
    <3>2. ASSUME NEW v \in Workers \ {w}, mapping'[v] # {}
          PROVE  Cardinality(mapping'[v]) <= Found[photo'[v]]
      BY <1>2, <1>3, <3>2 DEF MappingInv
    <3> QED
      BY <1>1, <1>2, <1>3, <3>1, <3>2
  <2>3. \A v \in Workers : pc'[v] = "add" =>
           \E f \in mapping'[v] \cap crops' : \A g \in mapping'[v] : f <= g
    BY <1>2, <1>3 DEF MappingInv
  <2>4. known' \cap Unmade' = {}
    <3>1. ASSUME NEW f \in known' PROVE f \notin Unmade'
      <4>1. CASE f \in S
        BY <1>2, <1>3, <4>1, StoreAssumption DEF StoreAssumption, Unmade
      <4>2. CASE f \in known
        BY <1>3, <4>2 DEF MappingInv, Unmade, DTypeOK
      <4> QED
        BY <1>1, <3>1, <4>1, <4>2
    <3> QED
      BY <3>1
  <2> QED
    BY <2>1, <2>2, <2>3, <2>4 DEF MappingInv
<1>6. StoredBound'
  <2> SUFFICES ASSUME NEW q \in Photos
               PROVE  Fits(q)'
    BY DEF StoredBound, Fits
  <2>1. CASE q # p
    <3>1. Held(q)' \subseteq Held(q) /\ Past(q)' \subseteq Past(q)
      BY <1>2, <1>3, <2>1, HeldIs DEF Past, store
    <3> QED
      BY <3>1, BoundKeptFor
  <2>2. CASE q = p
    <3>1. Held(p)' = Held(p) \cup S
      BY <1>2, <1>3, HeldIs DEF store
    <3>2. Past(p)' = Past(p) \ {w} /\ w \in Past(p)
      BY <1>2 DEF Past
    <3>3. /\ IsFiniteSet(Held(p)) /\ Cardinality(Held(p)) \in Nat
          /\ IsFiniteSet(Past(p)) /\ Cardinality(Past(p)) \in Nat
          /\ Cardinality(Workers) \in Nat /\ Found[p] \in Nat
      BY <1>2, HeldAndPastAreFinite, DetectionAssumption DEF DetectionAssumption
    <3>4. IsFiniteSet(S)
      BY <1>3, FacesAreNumbers, FS_Subset
    <3>5. IsFiniteSet(Held(p) \cup S)
          /\ Cardinality(Held(p) \cup S) <= Cardinality(Held(p)) + Cardinality(S)
      BY <3>3, <3>4, UnionOfTwo
    <3>6. Cardinality(Past(p) \ {w}) = Cardinality(Past(p)) - 1
          /\ Cardinality(Past(p) \ {w}) \in Nat
      BY <3>2, <3>3, FS_RemoveElement, FS_CardinalityType
    <3>7. Cardinality(Held(p)) + Cardinality(Past(p)) * Found[p]
            <= Cardinality(Workers) * Found[p]
      BY <1>2 DEF StoredBound
    <3>8. Cardinality(Past(p)) * Found[p]
            = Cardinality(Past(p) \ {w}) * Found[p] + Found[p]
      BY <3>3, <3>6
    <3>9. /\ Cardinality(Past(p) \ {w}) * Found[p] \in Nat
          /\ Cardinality(Workers) * Found[p] \in Nat
          /\ Cardinality(Held(p) \cup S) \in Nat
      BY <3>3, <3>5, <3>6, FS_CardinalityType
    <3>10. Cardinality(Held(p) \cup S) + Cardinality(Past(p) \ {w}) * Found[p]
             <= Cardinality(Workers) * Found[p]
      BY <1>1, <3>3, <3>5, <3>7, <3>8, <3>9
    <3> QED
      BY <2>2, <3>1, <3>2, <3>10, <1>2 DEF Fits
  <2> QED
    BY <2>1, <2>2
<1>7. AnsweredOrUnheard'
  <2> SUFFICES ASSUME NEW q \in asked, q # p, jobs[q] = 0, q \notin unheard
               PROVE  \E v \in Workers : photo[v] = q /\ pc'[v] \in Calling \cup {"detect"}
    BY <1>2 DEF AnsweredOrUnheard, DTypeOK
  <2>1. PICK v \in Workers : photo[v] = q /\ pc[v] \in Calling \cup {"detect"}
    BY DEF AnsweredOrUnheard
  <2> QED
    BY <1>2, <2>1
<1> QED
  BY <1>4, <1>5, <1>6, <1>7

\* A face goes from its handler's hands into the store, after its crop.
LEMMA AddRowKeepsInv ==
  ASSUME DetectionInv, NEW w \in Workers, AddRow(w)
  PROVE  DetectionInv'
<1> USE DEF DetectionInv
<1>1. PICK f \in mapping[w] :
         /\ \A g \in mapping[w] : f <= g
         /\ Add(f, photo[w])
         /\ mapping' = [mapping EXCEPT ![w] = @ \ {f}]
         /\ Goto(w, IF mapping[w] = {f} THEN "done" ELSE "persist")
  BY DEF AddRow
<1>2. UNCHANGED <<jobs, photo, crops, lychee, left, dhist>> /\ pc[w] = "add"
  BY DEF AddRow
<1>3. f \in crops
  <2>1. PICK g \in mapping[w] \cap crops : \A h \in mapping[w] : g <= h
    BY <1>2 DEF MappingInv
  <2>2. g <= f /\ f <= g /\ f \in Nat /\ g \in Nat
    BY <1>1, <2>1, FacesAreNumbers DEF DTypeOK
  <2> QED
    BY <2>1, <2>2
<1>4. /\ f \in Faces /\ photo[w] \in Photos /\ photoOf[f] = photo[w]
      /\ row' = [row EXCEPT ![f] = photo[w]] /\ row \in [Faces -> Photos \cup {NoPhoto}]
      /\ mapping'[w] = mapping[w] \ {f} /\ mapping' \in [Workers -> SUBSET Faces]
      /\ pc'[w] = IF mapping[w] = {f} THEN "done" ELSE "persist"
      /\ pc' \in [Workers -> Steps]
      /\ \A v \in Workers \ {w} : pc'[v] = pc[v] /\ mapping'[v] = mapping[v]
  BY <1>1, <1>2 DEF Add, MappingInv, DTypeOK, StoreTypeOK, Goto, Steps, Persisting
<1>5. present' \subseteq Stored' /\ row' \in [Faces -> Photos \cup {NoPhoto}]
  BY <1>1, <1>4, StoreAssumption DEF StoreAssumption, Add, DTypeOK, StoreTypeOK, Stored
<1>6. DTypeOK'
  <2>1. RowsHaveCrops'
    BY <1>2, <1>3, <1>4 DEF DTypeOK, RowsHaveCrops, Stored, lychee
  <2>2. \A v \in Workers :
           /\ photo'[v] = NoPhoto <=> pc'[v] = "idle"
           /\ mapping'[v] # {} => pc'[v] \in {"ack"} \cup Persisting
           /\ pc'[v] \in Persisting => mapping'[v] # {}
    BY <1>2, <1>4 DEF DTypeOK, Persisting
  <2>3. \A u, v \in Workers : u # v => ~ {pc'[u], pc'[v]} \subseteq Persisting
    BY <1>2, <1>4 DEF DTypeOK, Persisting
  <2> QED
    BY <1>2, <1>4, <1>5, <2>1, <2>2, <2>3 DEF DTypeOK, StoreTypeOK, lychee, dhist
<1>7. MappingInv'
  <2>1. Cardinality(mapping'[w]) <= Found[photo[w]]
    <3>1. IsFiniteSet(mapping[w])
      BY <1>4, FacesAreNumbers, FS_Subset DEF DTypeOK
    <3>2. /\ Cardinality(mapping[w] \ {f}) = Cardinality(mapping[w]) - 1
          /\ Cardinality(mapping[w]) \in Nat
      BY <1>1, <3>1, FS_RemoveElement, FS_CardinalityType
    <3>3. Cardinality(mapping[w]) <= Found[photo[w]] /\ Found[photo[w]] \in Nat
      BY <1>1, <1>4, DetectionAssumption DEF DetectionAssumption, MappingInv
    <3> QED
      BY <1>4, <3>2, <3>3
  <2> QED
    BY <1>2, <1>4, <2>1 DEF MappingInv, lychee, Unmade
<1>8. StoredBound'
  <2>1. \A q \in Photos : Held(q)' \subseteq Held(q) /\ Past(q)' \subseteq Past(q)
    BY <1>1, <1>2, <1>4, HeldIs DEF Past
  <2> QED
    BY <2>1, BoundKept
<1>9. AnsweredOrUnheard'
  BY <1>2, <1>4 DEF AnsweredOrUnheard, lychee, dhist, Calling
<1> QED
  BY <1>6, <1>7, <1>8, <1>9

\* A request starts the waiting anew, and a purge of the queue ends it for
\* the photos whose jobs it deletes.
LEMMA QueueCallKeepsInv ==
  ASSUME DetectionInv, (\E p \in Photos : Request(p)) \/ PurgeQueue
  PROVE  DetectionInv'
<1> USE DEF DetectionInv
<1>1. /\ UNCHANGED <<store, handler, crops, photoOf, known, abandoned, orphaned>>
      /\ asked' \subseteq Photos /\ unheard' \subseteq Photos
      /\ left' \in [Kinds -> Nat] /\ jobs' \in [Photos -> Nat]
  BY DEF Request, PurgeQueue, Spend, DTypeOK, Kinds, lychee
<1>2. DTypeOK'
  BY <1>1 DEF DTypeOK, StoreTypeOK, RowsHaveCrops, Stored, store, handler
<1>3. MappingInv'
  BY <1>1 DEF MappingInv, Unmade, handler
<1>4. StoredBound'
  <2>1. \A q \in Photos : Held(q)' \subseteq Held(q) /\ Past(q)' \subseteq Past(q)
    BY <1>1, HeldIs DEF Past, store, handler
  <2> QED
    BY <2>1, BoundKept
<1>5. AnsweredOrUnheard'
  <2>1. ASSUME NEW p \in Photos, Request(p) PROVE AnsweredOrUnheard'
    BY <1>1, <2>1 DEF Request, AnsweredOrUnheard, DTypeOK, handler
  <2>2. CASE PurgeQueue
    BY <1>1, <2>2 DEF PurgeQueue, AnsweredOrUnheard, DTypeOK, handler, lychee
  <2> QED
    BY <2>1, <2>2
<1> QED
  BY <1>2, <1>3, <1>4, <1>5

\* When all handlers are gone, nothing is in hand.
LEMMA GiveUpKeepsInv ==
  ASSUME DetectionInv, GiveUp, UNCHANGED <<store, crops, lychee>>,
         left' \in [Kinds -> Nat], jobs' \in [Photos -> Nat],
         abandoned' \subseteq Faces, orphaned' \subseteq Faces, unheard' \subseteq Photos
  PROVE  DTypeOK' /\ MappingInv' /\ StoredBound'
<1> USE DEF DetectionInv
<1>1. \A w \in Workers : pc'[w] = "idle" /\ photo'[w] = NoPhoto /\ mapping'[w] = {}
  BY DEF GiveUp
<1>2. DTypeOK'
  BY <1>1 DEF GiveUp, DTypeOK, StoreTypeOK, RowsHaveCrops, Stored, store, lychee, Steps,
     Persisting, Calling
<1>3. MappingInv'
  BY <1>1 DEF MappingInv, Unmade, lychee
<1>4. StoredBound'
  <2>1. \A q \in Photos : Held(q)' \subseteq Held(q) /\ Past(q)' \subseteq Past(q)
    BY <1>1, HeldIs DEF Past, store
  <2> QED
    BY <2>1, BoundKept
<1> QED
  BY <1>2, <1>3, <1>4

\* The handlers of one photo can be counted.
LEMMA HandlersAreCounted ==
  ASSUME NEW W \in SUBSET Workers, NEW p
  PROVE  /\ Cardinality({w \in W : photo[w] = p}) \in Nat
         /\ \A v \in W : photo[v] = p => Cardinality({w \in W : photo[w] = p}) > 0
<1> DEFINE H == {w \in W : photo[w] = p}
<1>1. IsFiniteSet(H)
  BY DetectionAssumption, FS_Subset DEF DetectionAssumption
<1>2. Cardinality(H) \in Nat /\ (Cardinality(H) = 0 <=> H = {})
  BY <1>1, FS_CardinalityType, FS_EmptySet
<1>3. \A v \in W : photo[v] = p => H # {}
  OBVIOUS
<1> HIDE DEF H
<1>4. Cardinality(H) \in Nat /\ (\A v \in W : photo[v] = p => Cardinality(H) > 0)
  BY <1>2, <1>3
<1> QED
  BY <1>4 DEF H

\* A crash returns the jobs of the handlers; so every answer Lychee waits for
\* has a job again.
LEMMA CrashKeepsInv ==
  ASSUME DetectionInv, Crash
  PROVE  DetectionInv'
<1> DEFINE n(p) == Cardinality({w \in Workers : photo[w] = p})
<1>1. /\ UNCHANGED <<store, crops, lychee, abandoned, unheard>>
      /\ GiveUp /\ jobs' = [p \in Photos |-> jobs[p] + n(p)]
      /\ orphaned' = orphaned \cup InHand /\ left' \in [Kinds -> Nat]
  BY DEF Crash, Spend, DetectionInv, DTypeOK, Kinds
<1>2. \A p \in Photos : n(p) \in Nat /\ \A w \in Workers : photo[w] = p => n(p) > 0
  BY HandlersAreCounted
<1> HIDE DEF n
<1>3. jobs' \in [Photos -> Nat] /\ orphaned' \subseteq Faces
  BY <1>1, <1>2 DEF DetectionInv, DTypeOK, InHand
<1>4. DTypeOK' /\ MappingInv' /\ StoredBound'
  BY <1>1, <1>3, GiveUpKeepsInv DEF DetectionInv, DTypeOK
<1>5. AnsweredOrUnheard'
  <2> SUFFICES ASSUME NEW p \in asked, p \notin unheard
               PROVE  jobs'[p] > 0
    BY <1>1 DEF AnsweredOrUnheard, lychee
  <2>1. p \in Photos /\ jobs[p] \in Nat /\ jobs'[p] = jobs[p] + n(p)
    BY <1>1 DEF DetectionInv, DTypeOK
  <2>2. jobs[p] > 0 \/ \E w \in Workers : photo[w] = p
    BY DEF DetectionInv, AnsweredOrUnheard
  <2> QED
    BY <1>2, <2>1, <2>2
<1> QED
  BY <1>4, <1>5 DEF DetectionInv

\* A stop leaves Lychee waiting for the cancelled handlers' photos.
LEMMA StopKeepsInv ==
  ASSUME DetectionInv, Stop
  PROVE  DetectionInv'
<1>1. PICK W \in SUBSET Workers :
         jobs' = [p \in Photos |-> jobs[p] + Cardinality({w \in W : photo[w] = p})]
  BY DEF Stop
<1> DEFINE n(p) == Cardinality({w \in W : photo[w] = p})
           cut == {photo[w] : w \in {v \in Workers : pc[v] \in Calling \cup {"detect"}}}
<1>2. /\ UNCHANGED <<store, crops, lychee, orphaned>>
      /\ GiveUp /\ jobs' = [p \in Photos |-> jobs[p] + n(p)]
      /\ abandoned' = abandoned \cup InHand /\ unheard' = unheard \cup cut
      /\ left' \in [Kinds -> Nat]
  BY <1>1 DEF Stop, Spend, DetectionInv, DTypeOK, Kinds
<1>3. \A p \in Photos : n(p) \in Nat
  BY HandlersAreCounted
<1>4. cut \subseteq Photos
  BY DEF DetectionInv, DTypeOK, Calling
<1>5. AnsweredOrUnheard'
  <2> SUFFICES ASSUME NEW p \in asked, p \notin unheard'
               PROVE  jobs'[p] > 0
    BY <1>2 DEF AnsweredOrUnheard, lychee
  <2>1. p \in Photos /\ jobs[p] \in Nat /\ jobs'[p] = jobs[p] + n(p)
    BY <1>2 DEF DetectionInv, DTypeOK
  <2>2. p \notin unheard /\ p \notin cut
    BY <1>2
  <2>3. jobs[p] > 0
    BY <2>2 DEF DetectionInv, AnsweredOrUnheard
  <2> QED
    <3> HIDE DEF n
    <3> QED
      BY <1>3, <2>1, <2>3
<1> HIDE DEF n, cut
<1>6. jobs' \in [Photos -> Nat] /\ abandoned' \subseteq Faces /\ unheard' \subseteq Photos
  BY <1>2, <1>3, <1>4 DEF DetectionInv, DTypeOK, InHand
<1>7. DTypeOK' /\ MappingInv' /\ StoredBound'
  BY <1>2, <1>6, GiveUpKeepsInv DEF DetectionInv, DTypeOK
<1> QED
  BY <1>5, <1>7 DEF DetectionInv

\* A detection keeps what detections promise.
LEMMA DetectionKeepsInv == DetectionInv /\ DNext => DetectionInv'
<1> SUFFICES ASSUME DetectionInv, DNext PROVE DetectionInv'
  OBVIOUS
<1>1. ASSUME NEW w \in Workers, WorkerStep(w) PROVE DetectionInv'
  BY <1>1, BeginKeepsInv, DeliverKeepsInv, AddRowKeepsInv, QuietStepKeepsInv DEF WorkerStep
<1> QED
  BY <1>1, QueueCallKeepsInv, CrashKeepsInv, StopKeepsInv DEF DNext

\* So does a request that only removes rows or sets flags, and so does Lychee
\* when it forgets a face.
LEMMA RemovalKeepsDetectionInv ==
  ASSUME DetectionInv, UNCHANGED <<jobs, handler, crops, photoOf, asked, dhist>>,
         left' \in [Kinds -> Nat], known' \subseteq known,
         row' \in [Faces -> Photos \cup {NoPhoto}],
         \A f \in Faces : row'[f] \in {NoPhoto, row[f]},
         present' \subseteq Stored'
  PROVE  DetectionInv'
<1> USE DEF DetectionInv
<1>1. DTypeOK'
  BY DEF DTypeOK, StoreTypeOK, RowsHaveCrops, Stored, handler, dhist
<1>2. MappingInv'
  BY DEF MappingInv, Unmade, handler
<1>3. StoredBound'
  <2>1. \A q \in Photos : Held(q)' \subseteq Held(q) /\ Past(q)' \subseteq Past(q)
    BY HeldIs, StoreAssumption DEF StoreAssumption, Past, handler
  <2> QED
    BY <2>1, BoundKept
<1>4. AnsweredOrUnheard'
  BY DEF AnsweredOrUnheard, handler, dhist
<1> QED
  BY <1>1, <1>2, <1>3, <1>4

-------------------------------------------------------------------------------
(* Lychee's requests *)

\* What a detection does to faces: it may make some and hand them to their
\* handler, and it passes them on to the store, or fails to; nothing that is
\* stored, known or marked as present is given up, and the flag of a face
\* that it stores is set if the row is new or the upsert sets flags.
Flows ==
    /\ Unmade' \subseteq Unmade /\ known \subseteq known' /\ known' \ known \subseteq Unmade
    /\ Upserted \subseteq Faces \cap InHand /\ Stored' = Stored \cup Upserted
    /\ InHand' \subseteq InHand \cup known'
    /\ Stored \cup InHand \cup abandoned \cup orphaned \cup (known' \ known)
         \subseteq Stored' \cup InHand' \cup abandoned' \cup orphaned'
    /\ present' = present \cup (IF KeepsFlag THEN Upserted \ Stored ELSE Upserted)

\* No face is stored when no handler that adds a row lets go of one.
LEMMA NothingStored ==
  ASSUME \A v \in Workers : pc[v] = "add" =>
            mapping'[v] = mapping[v] \/ pc'[v] \in {"idle", "error"}
  PROVE  Upserted = {}
  BY DEF Upserted

LEMMA AddRowFlows ==
  ASSUME DetectionInv, NEW w \in Workers, AddRow(w)
  PROVE  Flows
<1>1. PICK f \in mapping[w] :
         Add(f, photo[w]) /\ mapping' = [mapping EXCEPT ![w] = @ \ {f}]
  BY DEF AddRow
<1>2. UNCHANGED <<lychee, dhist>>
  BY DEF AddRow
<1>3. /\ f \in Faces /\ photo[w] \in Photos /\ mapping \in [Workers -> SUBSET Faces]
      /\ row \in [Faces -> Photos \cup {NoPhoto}] /\ present \subseteq Stored
  BY <1>1 DEF DetectionInv, DTypeOK, StoreTypeOK, Persisting
<1>4. row' = [row EXCEPT ![f] = photo[w]]
      /\ present' = IF KeepsFlag /\ f \in Stored THEN present ELSE present \cup {f}
  BY <1>1 DEF Add
<1>5. Stored' = Stored \cup {f}
  BY <1>3, <1>4, StoreAssumption DEF StoreAssumption, Stored
<1>6. InHand' \subseteq InHand /\ f \in InHand /\ InHand \subseteq InHand' \cup {f}
  BY <1>1, <1>3 DEF InHand
<1>7. Upserted = {f}
  <2>1. pc[w] = "add" /\ pc'[w] \in {"persist", "done"}
    BY DEF AddRow, Goto, DetectionInv, DTypeOK
  <2>2. mapping[w] \ mapping'[w] = {f} /\ \A v \in Workers \ {w} : mapping[v] \ mapping'[v] = {}
    BY <1>1, <1>3
  <2> QED
    BY <2>1, <2>2 DEF Upserted
<1>8. present' = present \cup (IF KeepsFlag THEN Upserted \ Stored ELSE Upserted)
  BY <1>4, <1>7
<1> QED
  BY <1>2, <1>3, <1>5, <1>6, <1>7, <1>8 DEF Flows, Unmade, lychee, dhist

LEMMA DeliverFlows ==
  ASSUME DetectionInv, NEW w \in Workers, Deliver(w)
  PROVE  Flows
<1>1. PICK S \in SUBSET ({f \in known : photoOf[f] = photo[w]} \cup Unmade) :
         /\ mapping' = [mapping EXCEPT ![w] = S]
         /\ photoOf' = [f \in Faces |-> IF f \in S THEN photo[w] ELSE photoOf[f]]
         /\ known' = known \cup S
  BY DEF Deliver
<1>2. /\ UNCHANGED <<store, abandoned, orphaned>>
      /\ photo[w] \in Photos /\ mapping[w] = {} /\ pc[w] = "post"
      /\ mapping \in [Workers -> SUBSET Faces] /\ known \subseteq Faces
  BY DEF Deliver, DetectionInv, DTypeOK, Persisting
<1>3. InHand' = InHand \cup S
  <2>1. mapping'[w] = S /\ \A v \in Workers \ {w} : mapping'[v] = mapping[v]
    BY <1>1, <1>2
  <2> QED
    BY <1>2, <2>1 DEF InHand
<1>4. Unmade' \subseteq Unmade
  BY <1>1, <1>2, StoreAssumption DEF StoreAssumption, Unmade
<1>5. Stored' = Stored /\ present' = present /\ abandoned' = abandoned /\ orphaned' = orphaned
  BY <1>2 DEF Stored, store
<1>6. Upserted = {}
  BY <1>1, <1>2, NothingStored
<1> QED
  BY <1>1, <1>3, <1>4, <1>5, <1>6 DEF Flows

\* The steps that leave the store and Lychee's faces alone.
LEMMA OtherStepsFlow ==
  ASSUME DetectionInv, UNCHANGED <<store, photoOf, known>>,
         InHand' \subseteq InHand, Upserted = {},
         abandoned \cup orphaned \cup InHand \subseteq abandoned' \cup orphaned' \cup InHand'
  PROVE  Flows
  BY DEF Flows, Unmade, Stored, store

LEMMA DetectionFlows ==
  ASSUME DetectionInv, DNext
  PROVE  Flows
<1>1. ASSUME NEW w \in Workers, Raise(w) PROVE Flows
  <2>1. /\ mapping' = [mapping EXCEPT ![w] = {}] /\ mapping \in [Workers -> SUBSET Faces]
        /\ abandoned' = abandoned \cup mapping[w]
        /\ UNCHANGED <<store, photoOf, known, orphaned>>
    BY <1>1 DEF Raise, lychee, DetectionInv, DTypeOK
  <2>2. InHand' \subseteq InHand /\ InHand \subseteq InHand' \cup mapping[w]
    BY <2>1 DEF InHand
  <2>3. Upserted = {}
    BY <1>1, <2>1, NothingStored DEF Raise, Goto, DetectionInv, DTypeOK
  <2> QED
    BY <2>1, <2>2, <2>3, OtherStepsFlow
<1>2. ASSUME NEW w \in Workers,
             \/ \E p \in Photos : Begin(w, p)
             \/ Detected(w) \/ DeliverEmpty(w) \/ NothingToPersist(w)
             \/ SaveCrop(w) \/ DeliverError(w) \/ Finish(w)
      PROVE  Flows
  <2>1. UNCHANGED <<store, photoOf, known, mapping, abandoned, orphaned>>
    BY <1>2 DEF Begin, Detected, DeliverEmpty, NothingToPersist, SaveCrop, DeliverError,
         Finish, lychee, dhist
  <2>2. InHand' = InHand /\ Upserted = {}
    BY <2>1, NothingStored DEF InHand
  <2> QED
    BY <2>1, <2>2, OtherStepsFlow
<1>3. ASSUME (\E p \in Photos : Request(p)) \/ PurgeQueue PROVE Flows
  <2>1. UNCHANGED <<store, photoOf, known, mapping, abandoned, orphaned>>
    BY <1>3 DEF Request, PurgeQueue, handler, lychee
  <2>2. InHand' = InHand /\ Upserted = {}
    BY <2>1, NothingStored DEF InHand
  <2> QED
    BY <2>1, <2>2, OtherStepsFlow
<1>4. ASSUME Crash \/ Stop PROVE Flows
  <2>1. /\ UNCHANGED <<store, photoOf, known>>
        /\ abandoned \cup orphaned \cup InHand \subseteq abandoned' \cup orphaned'
        /\ \A w \in Workers : mapping'[w] = {} /\ pc'[w] = "idle"
    BY <1>4 DEF Crash, Stop, lychee, GiveUp
  <2>2. InHand' = {} /\ Upserted = {}
    BY <2>1, NothingStored DEF InHand
  <2> QED
    BY <2>1, <2>2, OtherStepsFlow
<1> QED
  BY <1>1, <1>2, <1>3, <1>4, AddRowFlows, DeliverFlows DEF DNext, WorkerStep

\* A detection breaks no promise of the requests.
LEMMA DetectKeepsInv ==
  ASSUME FaceSyncInv, Detect
  PROVE  FaceSyncInv'
<1> USE DEF FaceSyncInv
<1>1. DetectionInv'
  BY DetectionKeepsInv DEF Detect
<1>2. Flows
  BY DetectionFlows DEF Detect
<1>3. /\ UNCHANGED <<forgotten, session, snapshot, unsent, missed, swept>>
      /\ session = "marking" =>
            since' = since \cup Upserted /\ fresh' = fresh \cup (Upserted \ Stored)
      /\ session # "marking" => since' = {} /\ fresh' = {}
  BY DEF Detect, sync
<1>4. STypeOK'
  <2>1. fresh' \subseteq since' /\ since' \subseteq Faces
    BY <1>2, <1>3 DEF STypeOK, Flows
  <2>2. forgotten' \subseteq Faces \ known'
    BY <1>2, <1>3 DEF STypeOK, SyncInv, Flows
  <2> QED
    BY <1>1, <1>3, <2>1, <2>2 DEF STypeOK, DetectionInv
<1>5. SyncInv'
  <2>1. forgotten' \cap Unmade' = {} /\ InHand' \ known' \subseteq forgotten' \cup missed'
    BY <1>2, <1>3 DEF SyncInv, Flows
  <2>2. ASSUME session' = "marking"
        PROVE  /\ ((snapshot' \ unsent') \cup Spared') \cap Stored' \subseteq present'
               /\ present' \subseteq snapshot' \cup Spared'
    <3>1. Spared' = Spared \cup (IF KeepsFlag THEN Upserted \ Stored ELSE Upserted)
      BY <1>3, <2>2 DEF Spared
    <3>2. /\ ((snapshot \ unsent) \cup Spared) \cap Stored \subseteq present
          /\ present \subseteq snapshot \cup Spared
      BY <1>3, <2>2 DEF SyncInv
    <3> QED
      BY <1>2, <1>3, <3>1, <3>2 DEF Flows
  <2> QED
    BY <2>1, <2>2 DEF SyncInv
<1>6. StaleOnlyIfMissed'
  BY <1>2, <1>3 DEF StaleOnlyIfMissed, SyncInv, Flows
<1>7. MissingOnlyIfInterrupted'
  BY <1>2, <1>3 DEF MissingOnlyIfInterrupted, Flows
<1> QED
  BY <1>1, <1>4, <1>5, <1>6, <1>7

\* What a removal leaves in the store.
LEMMA RemoveRemoves ==
  ASSUME StoreTypeOK, NEW S, Remove(S)
  PROVE  /\ row' \in [Faces -> Photos \cup {NoPhoto}]
         /\ \A f \in Faces : row'[f] = IF f \in S THEN NoPhoto ELSE row[f]
         /\ Stored' = Stored \ S /\ present' = present \ S
         /\ present' \subseteq Stored'
<1>1. row' = [f \in Faces |-> IF f \in S THEN NoPhoto ELSE row[f]] /\ present' = present \ S
  BY DEF Remove
<1>2. Stored' = Stored \ S
  BY <1>1 DEF Stored
<1> QED
  BY <1>1, <1>2 DEF StoreTypeOK

LEMMA DismissKeepsInv ==
  ASSUME FaceSyncInv, NEW f \in Faces, Dismiss(f)
  PROVE  FaceSyncInv'
<1> USE DEF FaceSyncInv
<1>1. /\ f \in known /\ known' = known \ {f} /\ forgotten' = forgotten \cup {f}
      /\ left' \in [Kinds -> Nat]
      /\ UNCHANGED <<store, jobs, handler, crops, photoOf, asked, dhist,
                     session, snapshot, unsent, missed, swept, since, fresh>>
  BY DEF Dismiss, Spend, Kinds, DetectionInv, DTypeOK, shist
<1>2. DetectionInv'
  BY <1>1, RemovalKeepsDetectionInv DEF store, DetectionInv, DTypeOK, StoreTypeOK, Stored
<1>3. Stored' = Stored /\ InHand' = InHand /\ Unmade' = Unmade /\ present' = present
      /\ abandoned' = abandoned /\ orphaned' = orphaned
  BY <1>1 DEF Stored, InHand, Unmade, store, handler, dhist
<1>4. STypeOK'
  BY <1>1, <1>2 DEF STypeOK, DetectionInv
<1>5. SyncInv'
  BY <1>1, <1>3 DEF SyncInv, Spared, DetectionInv, MappingInv
<1>6. StaleOnlyIfMissed' /\ MissingOnlyIfInterrupted'
  BY <1>1, <1>3 DEF StaleOnlyIfMissed, MissingOnlyIfInterrupted
<1> QED
  BY <1>2, <1>4, <1>5, <1>6

LEMMA DeleteKeepsInv ==
  ASSUME FaceSyncInv, DeleteEmbeddings \/ LoseDelete
  PROVE  FaceSyncInv'
<1> USE DEF FaceSyncInv
<1>1. /\ UNCHANGED <<jobs, handler, crops, lychee, dhist, session, snapshot, unsent, swept, since, fresh>>
      /\ forgotten' = {} /\ missed \subseteq missed' /\ missed' \subseteq missed \cup forgotten
      /\ left' \in [Kinds -> Nat]
  BY DEF DeleteEmbeddings, LoseDelete, Served, Spend, Kinds, DetectionInv, DTypeOK
<1>2. \E S \in SUBSET (forgotten \cap Stored) :
         /\ row' \in [Faces -> Photos \cup {NoPhoto}]
         /\ \A f \in Faces : row'[f] = IF f \in S THEN NoPhoto ELSE row[f]
         /\ Stored' = Stored \ S /\ present' = present \ S /\ present' \subseteq Stored'
         /\ forgotten \ S \subseteq missed' /\ forgotten \cap InHand \subseteq missed'
  <2>1. CASE LoseDelete
    <3>1. UNCHANGED store /\ missed' = missed \cup forgotten
      BY <2>1 DEF LoseDelete
    <3>2. Stored' = Stored /\ present' = present /\ row' = row
      BY <3>1 DEF Stored, store
    <3> WITNESS {} \in SUBSET (forgotten \cap Stored)
    <3> QED
      BY <3>1, <3>2 DEF DetectionInv, DTypeOK, StoreTypeOK
  <2>2. CASE DeleteEmbeddings
    <3>1. /\ Remove(forgotten \cap Stored)
          /\ missed' = missed \cup (forgotten \ Stored) \cup (forgotten \cap InHand)
      BY <2>2 DEF DeleteEmbeddings, DeleteMany
    <3>2. StoreTypeOK
      BY DEF DetectionInv, DTypeOK
    <3> WITNESS (forgotten \cap Stored) \in SUBSET (forgotten \cap Stored)
    <3> QED
      BY <3>1, <3>2, RemoveRemoves DEF StoreTypeOK
  <2> QED
    BY <2>1, <2>2
<1>3. PICK S \in SUBSET (forgotten \cap Stored) :
         /\ row' \in [Faces -> Photos \cup {NoPhoto}]
         /\ \A f \in Faces : row'[f] = IF f \in S THEN NoPhoto ELSE row[f]
         /\ Stored' = Stored \ S /\ present' = present \ S /\ present' \subseteq Stored'
         /\ forgotten \ S \subseteq missed' /\ forgotten \cap InHand \subseteq missed'
  BY <1>2
<1>4. DetectionInv'
  BY <1>1, <1>3, RemovalKeepsDetectionInv DEF lychee
<1>5. InHand' = InHand /\ Unmade' = Unmade /\ known' = known
      /\ abandoned' = abandoned /\ orphaned' = orphaned
  BY <1>1 DEF InHand, Unmade, handler, lychee, dhist
<1>6. S \cap known = {}
  BY DEF STypeOK
<1>7. STypeOK'
  BY <1>1, <1>4, <1>5 DEF STypeOK, DetectionInv
<1>8. SyncInv'
  BY <1>1, <1>3, <1>5 DEF SyncInv, Spared
<1>9. StaleOnlyIfMissed' /\ MissingOnlyIfInterrupted'
  BY <1>1, <1>3, <1>5, <1>6 DEF StaleOnlyIfMissed, MissingOnlyIfInterrupted
<1> QED
  BY <1>4, <1>7, <1>8, <1>9

LEMMA PurgeKeepsInv ==
  ASSUME FaceSyncInv, PurgeEmbeddings
  PROVE  FaceSyncInv'
<1> USE DEF FaceSyncInv
<1>1. /\ UNCHANGED <<jobs, handler, crops, lychee, dhist, left, forgotten, unsent, missed>>
      /\ Remove(Stored \ present) /\ unsent = {}
      /\ swept' = swept \cup ((Stored \ present) \cap known)
      /\ session' = "none" /\ snapshot' = {} /\ since' = {} /\ fresh' = {}
  BY DEF PurgeEmbeddings, Served, PurgeAbsent
<1>2. /\ row' \in [Faces -> Photos \cup {NoPhoto}]
      /\ \A f \in Faces : row'[f] \in {NoPhoto, row[f]}
      /\ Stored' = Stored \ (Stored \ present) /\ present' \subseteq Stored'
  BY <1>1, RemoveRemoves DEF DetectionInv, DTypeOK
<1>3. DetectionInv'
  BY <1>1, <1>2, RemovalKeepsDetectionInv DEF lychee, DetectionInv, DTypeOK
<1>4. InHand' = InHand /\ Unmade' = Unmade /\ known' = known
      /\ abandoned' = abandoned /\ orphaned' = orphaned
  BY <1>1 DEF InHand, Unmade, handler, lychee, dhist
<1>5. STypeOK'
  BY <1>1, <1>3, <1>4 DEF STypeOK, DetectionInv, Stored
<1>6. SyncInv'
  BY <1>1, <1>4 DEF SyncInv
<1>7. StaleOnlyIfMissed' /\ MissingOnlyIfInterrupted'
  BY <1>1, <1>2, <1>4 DEF StaleOnlyIfMissed, MissingOnlyIfInterrupted
<1> QED
  BY <1>3, <1>5, <1>6, <1>7

\* Steps of a session that touch no row.
LEMMA SessionKeepsInv ==
  ASSUME FaceSyncInv,
         \/ Open \/ Abort
         \/ \E S \in SUBSET unsent : SyncFirst(S)
         \/ \E S \in SUBSET unsent \ {{}} : SyncMore(S)
  PROVE  FaceSyncInv'
<1> USE DEF FaceSyncInv
<1>1. /\ UNCHANGED <<row, jobs, handler, crops, lychee, dhist, forgotten, missed, swept>>
      /\ left' \in [Kinds -> Nat] 
      /\ <<since', fresh'>> \in {<<since, fresh>>, <<{}, {}>>}
  BY DEF Open, Abort, SyncFirst, SyncMore, SyncBatch, Served, Spend, store, shist, dvars,
         Kinds, DetectionInv, DTypeOK
<1>2. /\ session' \in {"none", "open", "marking"}
      /\ snapshot' \subseteq Faces /\ unsent' \subseteq snapshot'
      /\ session' = "none" => unsent' = {}
  BY DEF Open, Abort, SyncFirst, SyncMore, STypeOK, DetectionInv, DTypeOK
<1>3. /\ present' \subseteq Stored
      /\ session' = "marking" =>
            /\ ((snapshot' \ unsent') \cup Spared') \cap Stored \subseteq present'
            /\ present' \subseteq snapshot' \cup Spared'
  <2>1. CASE Open \/ Abort
    BY <2>1 DEF Open, Abort, store, dvars, DetectionInv, DTypeOK, StoreTypeOK
  <2>2. ASSUME NEW S \in SUBSET unsent, SyncFirst(S)
        PROVE  <1>3
    <3>1. /\ present' = S \cap Stored /\ unsent = snapshot /\ unsent' \in {unsent, unsent \ S}
          /\ snapshot' = snapshot /\ Spared' = {}
      BY <2>2 DEF SyncFirst, SyncBatch, Spared
    <3> QED
      BY <3>1 DEF DetectionInv, DTypeOK, StoreTypeOK
  <2>3. ASSUME NEW S \in SUBSET unsent, SyncMore(S)
        PROVE  <1>3
    <3>1. /\ present' = present \cup (S \cap Stored) /\ unsent' \in {unsent, unsent \ S}
          /\ snapshot' = snapshot /\ Spared' = Spared /\ session = "marking"
      BY <2>3 DEF SyncMore, SyncBatch, Spared
    <3> QED
      BY <3>1 DEF SyncInv, STypeOK, DetectionInv, DTypeOK, StoreTypeOK
  <2> QED
    BY <2>1, <2>2, <2>3
<1>4. Stored' = Stored /\ InHand' = InHand /\ Unmade' = Unmade /\ known' = known
      /\ abandoned' = abandoned /\ orphaned' = orphaned
  BY <1>1 DEF Stored, InHand, Unmade, handler, lychee, dhist
<1>5. DetectionInv'
  <2>1. row \in [Faces -> Photos \cup {NoPhoto}] /\ row' = row
    BY <1>1 DEF DetectionInv, DTypeOK, StoreTypeOK
  <2> QED
    BY <1>1, <1>3, <1>4, <2>1, RemovalKeepsDetectionInv DEF lychee
<1>6. STypeOK'
  BY <1>1, <1>2, <1>4, <1>5 DEF STypeOK, DetectionInv
<1>7. SyncInv'
  BY <1>1, <1>3, <1>4 DEF SyncInv
<1>8. StaleOnlyIfMissed' /\ MissingOnlyIfInterrupted'
  BY <1>1, <1>4 DEF StaleOnlyIfMissed, MissingOnlyIfInterrupted
<1> QED
  BY <1>5, <1>6, <1>7, <1>8

-------------------------------------------------------------------------------
(* The theorems *)

LEMMA InitFaceSync == SInit => FaceSyncInv
<1> SUFFICES ASSUME SInit PROVE FaceSyncInv
  OBVIOUS
<1>1. DetectionInv
  BY InitDetection DEF SInit
<1>2. Stored = {} /\ InHand = {} /\ known = {}
  BY DEF SInit, DInit, InitStore, Stored, InHand
<1> QED
  BY <1>1, <1>2 DEF FaceSyncInv, DetectionInv, SInit, STypeOK, SyncInv, StaleOnlyIfMissed,
                    MissingOnlyIfInterrupted

LEMMA NextFaceSync == FaceSyncInv /\ [SNext]_svars => FaceSyncInv'
<1> SUFFICES ASSUME FaceSyncInv, [SNext]_svars PROVE FaceSyncInv'
  OBVIOUS
<1>1. CASE Detect
  BY <1>1, DetectKeepsInv
<1>2. CASE SyncStep
  BY <1>2, DismissKeepsInv, DeleteKeepsInv, PurgeKeepsInv, SessionKeepsInv
     DEF SyncStep, FaceSyncInv, STypeOK, DTypeOK, DetectionInv, Dismiss
<1>3. CASE UNCHANGED svars
  <2>1. DetectionInv'
    <3>1. /\ UNCHANGED <<row, present, jobs, handler, crops, lychee, left, dhist>>
          /\ row' = row
      BY <1>3 DEF svars, dvars, store
    <3>2. Stored' = Stored
      BY <3>1 DEF Stored
    <3> QED
      BY <3>1, <3>2, RemovalKeepsDetectionInv
         DEF FaceSyncInv, DetectionInv, DTypeOK, StoreTypeOK, lychee
  <2>2. Stored' = Stored /\ InHand' = InHand /\ Unmade' = Unmade /\ known' = known
        /\ present' = present /\ abandoned' = abandoned /\ orphaned' = orphaned
        /\ UNCHANGED <<forgotten, session, snapshot, unsent, missed, swept, since, fresh>>
        /\ Spared' = Spared
    BY <1>3 DEF Spared, svars, dvars, store, handler, lychee, dhist, sync, shist, Stored, InHand, Unmade
  <2> QED
    BY <2>1, <2>2 DEF FaceSyncInv, DetectionInv, STypeOK, SyncInv, StaleOnlyIfMissed,
                      MissingOnlyIfInterrupted
<1> QED
  BY <1>1, <1>2, <1>3 DEF SNext

\* Every reachable state satisfies the invariant.
THEOREM FaceSyncInvariant == SSpec => []FaceSyncInv
  BY InitFaceSync, NextFaceSync, PTL DEF SSpec

\* Types, whatever the photos, faces and workers are.
THEOREM TypesHold == SSpec => []STypeOK
<1>1. FaceSyncInv => STypeOK
  BY DEF FaceSyncInv
<1> QED
  BY <1>1, FaceSyncInvariant, PTL

\* For any number of workers and any number of faces on a photo, the store
\* and the handlers have at most a full set of its faces per worker.
THEOREM StoredIsBounded == SSpec => []StoredBound
<1>1. FaceSyncInv => StoredBound
  BY DEF FaceSyncInv, DetectionInv
<1> QED
  BY <1>1, FaceSyncInvariant, PTL

\* Lychee never waits for a photo that nobody is working on, unless, since it
\* last asked, a purge of the queue deleted the job, a graceful stop cut its
\* handler off, or it has missed the answer.
THEOREM AnswersComeOrAreUnheard == SSpec => []AnsweredOrUnheard
<1>1. FaceSyncInv => AnsweredOrUnheard
  BY DEF FaceSyncInv, DetectionInv
<1> QED
  BY <1>1, FaceSyncInvariant, PTL

\* An embedding without a face has missed its DELETE, whatever the order of
\* detections, deletions and purges.
THEOREM StaleEmbeddingsWereMissed == SSpec => []StaleOnlyIfMissed
<1>1. FaceSyncInv => StaleOnlyIfMissed
  BY DEF FaceSyncInv
<1> QED
  BY <1>1, FaceSyncInvariant, PTL

\* A face without an embedding was interrupted on its way, or swept.
THEOREM MissingEmbeddingsWereInterrupted == SSpec => []MissingOnlyIfInterrupted
<1>1. FaceSyncInv => MissingOnlyIfInterrupted
  BY DEF FaceSyncInv
<1> QED
  BY <1>1, FaceSyncInvariant, PTL

\* Purges are exact for any slices of the snapshot, sent any number of times,
\* next to any detections: what is left is what Lychee listed and what was
\* stored since batch 0, or first stored since then where the upsert keeps the
\* flag.
THEOREM PurgesAreExact == SSpec => PurgeIsExact
<1>1. FaceSyncInv /\ [SNext]_svars =>
         [PurgeEmbeddings =>
            {f \in Faces : row'[f] # NoPhoto} = Stored \cap (snapshot \cup Spared)]_svars
  <2> SUFFICES ASSUME FaceSyncInv, PurgeEmbeddings
               PROVE  {f \in Faces : row'[f] # NoPhoto} = Stored \cap (snapshot \cup Spared)
    OBVIOUS
  <2>1. /\ Remove(Stored \ present) /\ StoreTypeOK
        /\ (snapshot \cup Spared) \cap Stored \subseteq present
        /\ present \subseteq snapshot \cup Spared
    BY DEF PurgeEmbeddings, PurgeAbsent, FaceSyncInv, DetectionInv, DTypeOK, SyncInv
  <2>2. \A f \in Faces : row'[f] = IF f \in Stored \ present THEN NoPhoto ELSE row[f]
    BY <2>1, RemoveRemoves
  <2>3. present \subseteq Stored
    BY <2>1 DEF StoreTypeOK
  <2> QED
    BY <2>1, <2>2, <2>3 DEF Stored
<1> QED
  BY <1>1, FaceSyncInvariant, PTL DEF SSpec, PurgeIsExact
===============================================================================
