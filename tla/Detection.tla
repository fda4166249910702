------------------------------- MODULE Detection -------------------------------
(***************************************************************************)
(* The detection job (_run_detection_job in app/api/routes.py) run by the  *)
(* worker tasks of one process, with the embedding store it fills and with *)
(* Lychee, which asks for detections, creates a Face for each result and   *)
(* answers with its ids, and later forgets faces.                          *)
(*                                                                         *)
(* One action is what a handler does between two awaits.  The loop that    *)
(* persists the faces has no await: the event loop serves nothing else     *)
(* meanwhile, but the process may die between any two of its steps.        *)
(*                                                                         *)
(* Of the queue only its contract is left: an accepted job is handled or   *)
(* purged, a crash returns it (JobQueue, Recover), a graceful stop deletes *)
(* the jobs it cancels (QueueWorkers).                                     *)
(***************************************************************************)
EXTENDS EmbeddingStore

CONSTANTS
    Workers,        \* worker tasks of the process
    Found,          \* Found[p]: faces detected on p, filtered and limited
    Budget          \* bound: how many of each kind may happen

MaxFace == Cardinality(Faces)       \* bound: faces that Lychee ever creates
Kinds   == {"request", "dismiss", "session", "mishap", "purge"}

ASSUME DetectionAssumption ==
    /\ IsFiniteSet(Workers)
    /\ Found \in [Photos -> Nat]
    /\ Faces = 1..MaxFace
    /\ Budget \in [Kinds -> Nat]

VARIABLES
    jobs,       \* jobs[p]: detection jobs for p that are pending
    pc,         \* pc[w]: where in _run_detection_job worker w is
    photo,      \* photo[w]: the photo of its job
    mapping,    \* mapping[w]: faces Lychee created for it, not yet persisted
    crops,      \* faces with a crop file in data/faces
    \* Lychee:
    photoOf,    \* photoOf[f]: the photo of face f, NoPhoto before it is made
    known,      \* faces that Lychee still has
    asked,      \* photos for which Lychee waits for a callback
    left,       \* left[k]: how many may still happen
    \* History, read by no action:
    abandoned,  \* faces whose handler failed before it persisted them
    orphaned,   \* faces whose handler died with the process before
    unheard     \* photos whose job was purged, whose callback was lost or whose
                \*   handler was cancelled, since Lychee last asked or heard

handler == <<pc, photo, mapping>>
lychee  == <<photoOf, known, asked>>
dhist   == <<abandoned, orphaned, unheard>>
dvars   == <<store, jobs, handler, crops, lychee, left, dhist>>

Persisting == {"persist", "add"}
Calling    == {"post", "postEmpty", "error"}
Steps      == {"idle", "detect", "ack", "done"} \cup Persisting \cup Calling

DInit ==
    /\ InitStore
    /\ jobs = [p \in Photos |-> 0]
    /\ pc = [w \in Workers |-> "idle"]
    /\ photo = [w \in Workers |-> NoPhoto]
    /\ mapping = [w \in Workers |-> {}]
    /\ crops = {}
    /\ photoOf = [f \in Faces |-> NoPhoto]
    /\ known = {} /\ asked = {}
    /\ left = Budget
    /\ abandoned = {} /\ orphaned = {} /\ unheard = {}

Goto(w, l) == pc' = [pc EXCEPT ![w] = l]
Spend(k)   == left[k] > 0 /\ left' = [left EXCEPT ![k] = @ - 1]

\* The event loop is not in the middle of another worker's persisting.
Turn(w) == \A v \in Workers \ {w} : pc[v] \notin Persisting
Free    == \A v \in Workers : pc[v] \notin Persisting

-------------------------------------------------------------------------------
(* The handler *)

BeginUnchecked(w, p) ==
    /\ pc[w] = "idle" /\ Turn(w) /\ jobs[p] > 0
    /\ jobs' = [jobs EXCEPT ![p] = @ - 1]
    /\ photo' = [photo EXCEPT ![w] = p]
    /\ Goto(w, "detect")
    /\ UNCHANGED <<store, mapping, crops, lychee, left, dhist>>

\* 0. Take a job; are there faces for this photo already?
Begin(w, p) ==
    /\ pc[w] = "idle" /\ Turn(w) /\ jobs[p] > 0
    /\ jobs' = [jobs EXCEPT ![p] = @ - 1]
    /\ photo' = [photo EXCEPT ![w] = p]
    /\ Goto(w, IF OfPhoto(p) = {} THEN "detect" ELSE "postEmpty")
    /\ UNCHANGED <<store, mapping, crops, lychee, left, dhist>>

\* 1, 2. Detection and crops are there.
Detected(w) ==
    /\ pc[w] = "detect" /\ Turn(w)
    /\ Goto(w, "post")
    /\ UNCHANGED <<store, jobs, photo, mapping, crops, lychee, left, dhist>>

RaiseSilently(w) ==
    /\ pc[w] \in {"detect", "post", "postEmpty", "ack"} \cup Persisting /\ Turn(w)
    /\ Spend("mishap")
    /\ Goto(w, "done")
    /\ mapping' = [mapping EXCEPT ![w] = {}]
    /\ abandoned' = abandoned \cup mapping[w]
    /\ UNCHANGED <<store, jobs, photo, crops, lychee, orphaned, unheard>>

\* `except Exception`: the detector, the POST (before or after Lychee acted
\* on it), its answer, a crop file or store.add raised.
Raise(w) ==
    /\ pc[w] \in {"detect", "post", "postEmpty", "ack"} \cup Persisting /\ Turn(w)
    /\ Spend("mishap")
    /\ Goto(w, "error")
    /\ mapping' = [mapping EXCEPT ![w] = {}]
    /\ abandoned' = abandoned \cup mapping[w]
    /\ UNCHANGED <<store, jobs, photo, crops, lychee, orphaned, unheard>>

SaveCropYielding(w) ==
    /\ pc[w] \in {"ack", "persist"}
    /\ \E f \in mapping[w] : (\A g \in mapping[w] : f <= g) /\ crops' = crops \cup {f}
    /\ Goto(w, "add")
    /\ UNCHANGED <<store, jobs, photo, mapping, lychee, left, dhist>>

\* 4. The next face of the mapping: first its crop file, then its row.
SaveCrop(w) ==
    /\ pc[w] \in {"ack", "persist"} /\ Turn(w)
    /\ \E f \in mapping[w] : (\A g \in mapping[w] : f <= g) /\ crops' = crops \cup {f}
    /\ Goto(w, "add")
    /\ UNCHANGED <<store, jobs, photo, mapping, lychee, left, dhist>>

AddFirstRow(w) ==
    /\ pc[w] = "add"
    /\ \E f \in mapping[w] : (\A g \in mapping[w] : f <= g) /\ Add(f, photo[w])
    /\ mapping' = [mapping EXCEPT ![w] = {}]
    /\ Goto(w, "done")
    /\ UNCHANGED <<jobs, photo, crops, lychee, left, dhist>>

AddRow(w) ==
    /\ pc[w] = "add"
    /\ \E f \in mapping[w] :
          /\ \A g \in mapping[w] : f <= g
          /\ Add(f, photo[w])
          /\ mapping' = [mapping EXCEPT ![w] = @ \ {f}]
          /\ Goto(w, IF mapping[w] = {f} THEN "done" ELSE "persist")
    /\ UNCHANGED <<jobs, photo, crops, lychee, left, dhist>>

\* The mapping was empty.
NothingToPersist(w) ==
    /\ pc[w] = "ack" /\ Turn(w) /\ mapping[w] = {}
    /\ Goto(w, "done")
    /\ UNCHANGED <<store, jobs, photo, mapping, crops, lychee, left, dhist>>

\* queue.complete.
Finish(w) ==
    /\ pc[w] = "done"
    /\ Goto(w, "idle")
    /\ photo' = [photo EXCEPT ![w] = NoPhoto]
    /\ UNCHANGED <<store, jobs, mapping, crops, lychee, left, dhist>>

-------------------------------------------------------------------------------
(* Lychee *)

\* POST /detect; the insert runs in a thread, not on the event loop.
Request(p) ==
    /\ Spend("request")
    /\ jobs' = [jobs EXCEPT ![p] = @ + 1]
    /\ asked' = asked \cup {p}
    /\ unheard' = unheard \ {p}
    /\ UNCHANGED <<store, handler, crops, photoOf, known, abandoned, orphaned>>

\* DELETE /queue: the pending jobs go, and no callback says so.
PurgeQueue ==
    /\ Spend("purge")
    /\ jobs' = [p \in Photos |-> 0]
    /\ unheard' = unheard \cup {p \in Photos : jobs[p] > 0}
    /\ UNCHANGED <<store, handler, crops, lychee, abandoned, orphaned>>

\* Lychee hears an answer for p, successful or not.
Hears(p) == asked' = asked \ {p} /\ unheard' = unheard \ {p}

Unmade == {f \in Faces : photoOf[f] = NoPhoto}

\* The success callback: for every result Lychee makes a Face, or finds one
\* of the photo's faces in the same place.
Deliver(w) ==
    /\ pc[w] = "post"
    /\ \E S \in SUBSET ({f \in known : photoOf[f] = photo[w]} \cup Unmade) :
          /\ Cardinality(S) = Found[photo[w]]
          /\ \A f \in S \cap Unmade, g \in Unmade : g < f => g \in S
          /\ mapping' = [mapping EXCEPT ![w] = S]
          /\ photoOf' = [f \in Faces |-> IF f \in S THEN photo[w] ELSE photoOf[f]]
          /\ known' = known \cup S
    /\ Hears(photo[w])
    /\ Goto(w, "ack")
    /\ UNCHANGED <<store, jobs, photo, crops, left, abandoned, orphaned>>

\* The empty success callback of a photo that has faces already.
DeliverEmpty(w) ==
    /\ pc[w] = "postEmpty"
    /\ Hears(photo[w])
    /\ Goto(w, "ack")
    /\ UNCHANGED <<store, jobs, photo, mapping, crops, photoOf, known, left,
                   abandoned, orphaned>>

\* The error callback: sent once, heard or not.
DeliverError(w) ==
    /\ pc[w] = "error"
    /\ \/ Hears(photo[w])
       \/ unheard' = unheard \cup {photo[w]} /\ UNCHANGED asked
    /\ Goto(w, "done")
    /\ UNCHANGED <<store, jobs, photo, mapping, crops, photoOf, known, left,
                   abandoned, orphaned>>

-------------------------------------------------------------------------------
(* The process *)

\* The faces that handlers are about to persist.
InHand == UNION {mapping[w] : w \in Workers}

GiveUp ==
    /\ pc' = [w \in Workers |-> "idle"]
    /\ photo' = [w \in Workers |-> NoPhoto]
    /\ mapping' = [w \in Workers |-> {}]

\* A crash and the restart: the jobs in hand go back to the queue.
Crash ==
    /\ Spend("mishap")
    /\ GiveUp
    /\ jobs' = [p \in Photos |-> jobs[p] + Cardinality({w \in Workers : photo[w] = p})]
    /\ orphaned' = orphaned \cup InHand
    /\ UNCHANGED <<store, crops, lychee, abandoned, unheard>>

\* A graceful stop: CancelledError is not an Exception, nobody is told.  The
\* jobs are deleted, but for those whose deletion was cancelled as well.
Stop ==
    /\ Free
    /\ Spend("mishap")
    /\ GiveUp
    /\ \E W \in SUBSET Workers :
          jobs' = [p \in Photos |-> jobs[p] + Cardinality({w \in W : photo[w] = p})]
    /\ unheard' = unheard \cup
         {photo[w] : w \in {v \in Workers : pc[v] \in Calling \cup {"detect"}}}
    /\ abandoned' = abandoned \cup InHand
    /\ UNCHANGED <<store, crops, lychee, orphaned>>

-------------------------------------------------------------------------------

WorkerStep(w) ==
    \/ \E p \in Photos : Begin(w, p)
    \/ Detected(w) \/ Deliver(w) \/ DeliverEmpty(w) \/ NothingToPersist(w)
    \/ SaveCrop(w) \/ AddRow(w) \/ Raise(w) \/ DeliverError(w) \/ Finish(w)

DNext ==
    \/ \E w \in Workers : WorkerStep(w)
    \/ \E p \in Photos : Request(p)
    \/ PurgeQueue
    \/ Crash \/ Stop

-------------------------------------------------------------------------------
(* Properties *)

\* An embedding is stored for the photo Lychee made the face for, and its
\* crop file was written before it: export never names a missing crop.
RowsHaveCrops == \A f \in Stored : photoOf[f] = row[f] /\ f \in crops

\* Types; what a handler holds depends on where it is, no two workers are in
\* the loop that persists, and rows have their crops.
DTypeOK ==
    /\ StoreTypeOK /\ RowsHaveCrops
    /\ jobs \in [Photos -> Nat]
    /\ pc \in [Workers -> Steps]
    /\ photo \in [Workers -> Photos \cup {NoPhoto}]
    /\ mapping \in [Workers -> SUBSET Faces]
    /\ crops \subseteq Faces
    /\ photoOf \in [Faces -> Photos \cup {NoPhoto}]
    /\ known \subseteq Faces /\ asked \subseteq Photos
    /\ left \in [Kinds -> Nat]
    /\ abandoned \subseteq Faces /\ orphaned \subseteq Faces /\ unheard \subseteq Photos
    /\ \A w \in Workers :
          /\ photo[w] = NoPhoto <=> pc[w] = "idle"
          /\ mapping[w] # {} => pc[w] \in {"ack"} \cup Persisting
          /\ pc[w] \in Persisting => mapping[w] # {}
    /\ \A v, w \in Workers : v # w => ~ {pc[v], pc[w]} \subseteq Persisting

\* Handlers that have checked for stored faces and may still add theirs.
Past(p) == {w \in Workers : photo[w] = p /\ pc[w] \in {"detect", "post"}}

\* The faces of p that are stored or in a handler's hands.
Held(p) == OfPhoto(p) \cup UNION {mapping[w] : w \in {v \in Workers : photo[v] = p}}

\* "Idempotent detection" (docs/0-overview): the check and the insert are
\* apart, so as many handlers as there are workers may each store a full set
\* of faces for one photo, and no more; one worker stores one.
StoredBound ==
    \A p \in Photos :
        Cardinality(Held(p)) + Cardinality(Past(p)) * Found[p]
          <= Cardinality(Workers) * Found[p]

\* "Lychee receives results as soon as they are ready" (docs/0-overview): it
\* waits for a photo only while a job for it is queued or on its way to a
\* callback, or, since it last asked, that job was purged, its handler
\* cancelled or its callback lost.
AnsweredOrUnheard ==
    \A p \in asked :
        \/ jobs[p] > 0 \/ p \in unheard
        \/ \E w \in Workers : photo[w] = p /\ pc[w] \in Calling \cup {"detect"}

-------------------------------------------------------------------------------
(* What the properties rest on *)

\* A handler has faces of its own photo in hand, not more than it found, and
\* the crop of the one it is about to store; Lychee's faces have photos.
MappingInv ==
    /\ \A w \in Workers :
          /\ \A f \in mapping[w] : photoOf[f] = photo[w]
          /\ mapping[w] # {} => Cardinality(mapping[w]) <= Found[photo[w]]
          /\ pc[w] = "add" => \E f \in mapping[w] \cap crops : \A g \in mapping[w] : f <= g
    /\ known \cap Unmade = {}

DetectionInv == DTypeOK /\ MappingInv /\ StoredBound /\ AnsweredOrUnheard
===============================================================================
