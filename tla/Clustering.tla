------------------------------- MODULE Clustering -------------------------------
(***************************************************************************)
(* The clustering job of app/api/routes.py: several workers may run it at  *)
(* once while faces come and go in the store and in Lychee.  Between the   *)
(* snapshot of get_all and Lychee's answer to the callback a run awaits a  *)
(* thread and an HTTP call; its searches see the store as it is between    *)
(* the two.                                                                *)
(*                                                                         *)
(* Lychee checks that it has every face of a callback (the comment in      *)
(* _run_clustering_job quotes its rule exists:faces,id) and refuses the    *)
(* whole of it otherwise.  The queue and the workers around the job are    *)
(* the business of QueueWorkers.                                           *)
(***************************************************************************)
EXTENDS Similarity, Sequences

CONSTANTS
    Runs,           \* runs of _run_clustering_job
    WorkerCount,    \* worker tasks, of all processes
    EpsChoices,     \* values of settings.cluster_eps
    MaxChanges,     \* bound: changes to the store or to Lychee's faces
    Mishaps         \* bound: exceptions, lost calls and lost replies, crashes

ASSUME ClusteringAssumption ==
    /\ IsFiniteSet(Runs) /\ WorkerCount \in Nat \ {0}
    /\ EpsChoices \subseteq Nat /\ MaxChanges \in Nat /\ Mishaps \in Nat

VARIABLES
    stored,     \* faces with an embedding in the store
    known,      \* faces Lychee has
    changes,    \* changes so far, the version of both
    stage,      \* stage[r]: where in _run_clustering_job run r is
    snap,       \* snap[r]: all_embeddings
    labels,     \* labels[r]: the label of each face of the results
    hits,       \* hits[r]: its suggestions, as pairs of faces
    left,       \* mishaps that may still happen
    \* History, read by no action:
    version,    \* version[r]: changes when r read the store
    heard,      \* callbacks that Lychee accepted, in their order
    overlapped, \* pairs of runs that were in flight at once
    unheard,    \* runs whose accepted callback looked like a failure
    troubled    \* runs that a mishap befell

data   == <<place, eps, engine>>
world  == <<stored, known, changes>>
run    == <<stage, snap, labels, hits>>
chist  == <<version, heard, overlapped, unheard, troubled>>
cvars  == <<data, world, run, left, chist>>

NoLabels == [f \in {} |-> Noise]

CInit ==
    /\ place \in [Faces -> Places] /\ eps \in EpsChoices /\ engine \in Engines
    /\ known = Faces /\ stored \in SUBSET Faces
    /\ changes = 0
    /\ stage = [r \in Runs |-> "waiting"]
    /\ snap = [r \in Runs |-> {}]
    /\ labels = [r \in Runs |-> NoLabels]
    /\ hits = [r \in Runs |-> {}]
    /\ left = Mishaps
    /\ version = [r \in Runs |-> 0]
    /\ heard = <<>> /\ overlapped = {} /\ unheard = {} /\ troubled = {}

Suffer(r) == left > 0 /\ left' = left - 1 /\ troubled' = troubled \cup {r}
Goto(r, s) == stage' = [stage EXCEPT ![r] = s]

-------------------------------------------------------------------------------
(* The store and Lychee's faces *)

Change == changes < MaxChanges /\ changes' = changes + 1

\* A detection job persists a face.
Store(f) ==
    /\ f \in known \ stored /\ Change
    /\ stored' = stored \cup {f}
    /\ UNCHANGED <<data, known, run, left, chist>>

\* Lychee forgets a face; its DELETE comes later, or never.
Dismiss(f) ==
    /\ f \in known /\ Change
    /\ known' = known \ {f}
    /\ UNCHANGED <<data, stored, run, left, chist>>

Delete(f) ==
    /\ f \in stored \ known /\ Change
    /\ stored' = stored \ {f}
    /\ UNCHANGED <<data, known, run, left, chist>>

-------------------------------------------------------------------------------
(* _run_clustering_job *)

InFlightDetached == {r \in Runs : stage[r] = "clustering"}
InFlight         == {r \in Runs : stage[r] \in {"clustering", "posting", "fallback"}}

\* get_all.  Nothing is clustered or searched for when there is nothing.
Read(r) ==
    /\ stage[r] = "waiting" /\ Cardinality(InFlight) < WorkerCount
    /\ snap' = [snap EXCEPT ![r] = stored]
    /\ Goto(r, IF stored = {} THEN "posting" ELSE "clustering")
    /\ version' = [version EXCEPT ![r] = changes]
    /\ overlapped' = overlapped \cup {{r, q} : q \in InFlight}
    /\ UNCHANGED <<data, world, labels, hits, left, heard, unheard, troubled>>

\* The executor has clustered the snapshot; on the event loop, without an
\* await, the suggestions are made and the payload with them.
Label(r) ==
    /\ stage[r] = "clustering"
    /\ \E lab \in Labellings(snap[r]) :
          /\ labels' = [labels EXCEPT ![r] = lab]
          /\ \E H \in AllSuggestions(lab, stored) : hits' = [hits EXCEPT ![r] = H]
    /\ Goto(r, "posting")
    /\ UNCHANGED <<data, world, snap, left, chist>>

\* The faces a payload names.
Named(r) == DOMAIN labels[r] \cup {h[2] : h \in hits[r]}
Answer(r, S) == heard' = Append(heard, [run |-> r, faces |-> S])

AcceptThenFallback(r) ==
    /\ stage[r] = "posting" /\ Named(r) \subseteq known
    /\ Answer(r, DOMAIN labels[r])
    /\ Goto(r, "fallback")
    /\ UNCHANGED <<data, world, snap, labels, hits, left, version, overlapped,
                   unheard, troubled>>

\* Lychee accepts the payload.  A reply that is late or lost is an exception.
Accept(r) ==
    /\ stage[r] = "posting" /\ Named(r) \subseteq known
    /\ Answer(r, DOMAIN labels[r])
    /\ \/ Goto(r, "done") /\ UNCHANGED <<left, unheard, troubled>>
       \/ Goto(r, "fallback") /\ Suffer(r) /\ unheard' = unheard \cup {r}
    /\ UNCHANGED <<data, world, snap, labels, hits, version, overlapped>>

\* 422: raise_for_status raises.
Refuse(r) ==
    /\ stage[r] = "posting" /\ ~ (Named(r) \subseteq known)
    /\ Goto(r, "fallback")
    /\ UNCHANGED <<data, world, snap, labels, hits, left, chist>>

\* Any other exception, a call that Lychee never got among them.
Raise(r) ==
    /\ stage[r] \in {"clustering", "posting"}
    /\ Suffer(r)
    /\ Goto(r, "fallback")
    /\ UNCHANGED <<data, world, snap, labels, hits, version, heard, overlapped, unheard>>

\* The empty payload of the except clause; whether its reply gets through
\* changes nothing.
AcceptEmpty(r) ==
    /\ stage[r] = "fallback"
    /\ Answer(r, {})
    /\ Goto(r, "done")
    /\ UNCHANGED <<data, world, snap, labels, hits, left, version, overlapped,
                   unheard, troubled>>

\* Its call fails, or the run is cancelled or dies with its process.
GiveUp(r) ==
    /\ r \in InFlight
    /\ Suffer(r)
    /\ Goto(r, "done")
    /\ UNCHANGED <<data, world, snap, labels, hits, version, heard, overlapped, unheard>>

-------------------------------------------------------------------------------

CNext ==
    \/ \E f \in Faces : Store(f) \/ Dismiss(f) \/ Delete(f)
    \/ \E r \in Runs :
          \/ Read(r) \/ Label(r)
          \/ Accept(r) \/ Refuse(r) \/ Raise(r) \/ AcceptEmpty(r) \/ GiveUp(r)

CSpec == CInit /\ [][CNext]_cvars

-------------------------------------------------------------------------------
(* Properties *)

\* A suggestion pairs faces that DBSCAN does not take for neighbours.  So no
\* review is ever offered where match_threshold asks for more likeness than
\* cluster_eps does, whatever the faces are.
SuggestedOnlyBeyondEps ==
    MinSamples = 1 => \A r \in Runs : \A h \in hits[r] : ~ Near(h[1], h[2])

\* What run r suggests for f rather than g.
Preferred(r, f, g) == {h \in Closer(f, g, stored) : <<f, h>> \in hits[r]}

\* Run r suggests g for f, unless as many as max_per_face closer ones are,
\* as many faces of any cluster as the search returns are closer, or the
\* index keeps the two in different lists.
SuggestsOrCrowds(r, f, g) ==
    \/ labels[r][f] = Noise
    \/ <<f, g>> \in hits[r]
    \/ ~ SameList(f, g)
    \/ Cardinality(Preferred(r, f, g)) = MaxPerFace
    \/ Cardinality(Closer(f, g, stored)) >= Limit

\* That holds for every face that is alike enough and in another cluster.
LeavesOutTheCrowded(r) ==
    \A f \in DOMAIN labels[r] :
        \A g \in Elsewhere(f, labels[r], Within(f, snap[r])) : SuggestsOrCrowds(r, f, g)

\* While the store stays as get_all saw it, only crowded faces are left out,
\* and, by the "approx nearest-neighbour search" of pgvector_store, those of
\* another list; with vec0 there are no lists.
LeftOutOnlyIfCrowdedOrApart ==
    \A r \in Runs : stage[r] = "posting" /\ version[r] = changes => LeavesOutTheCrowded(r)

\* Lychee hears results in the order of their snapshots, except for runs that
\* were in flight at once: then older labels may come on top of newer ones.
AnsweredInOrder ==
    \A i, j \in DOMAIN heard : i < j /\ version[heard[j].run] < version[heard[i].run] =>
        {heard[i].run, heard[j].run} \in overlapped

\* A run is answered for once; only after a reply that got lost does an
\* empty result follow the full one.
AnsweredOnce ==
    \A i, j \in DOMAIN heard : i < j /\ heard[i].run = heard[j].run =>
        heard[i].run \in unheard /\ heard[j].faces = {}

\* Lychee is told that there is nothing only when there was nothing, when a
\* mishap befell the run, or when the store still had a face that Lychee has
\* not: one such embedding spoils the result for all faces.
EmptyOnlyIfSpoiled ==
    \A i \in DOMAIN heard : heard[i].faces = {} =>
        LET r == heard[i].run
        IN  snap[r] = {} \/ r \in troubled \/ ~ (snap[r] \subseteq known)

-------------------------------------------------------------------------------
(* What the properties rest on *)

Stages == {"waiting", "clustering", "posting", "fallback", "done"}

\* Types; what a run read is not newer than the store, and its results name
\* what it read.
CTypeOK ==
    /\ place \in [Faces -> Places] /\ eps \in EpsChoices /\ engine \in Engines
    /\ stored \subseteq Faces /\ known \subseteq Faces
    /\ changes \in Nat
    /\ stage \in [Runs -> Stages] /\ snap \in [Runs -> SUBSET Faces]
    /\ DOMAIN labels = Runs /\ DOMAIN hits = Runs
    /\ left \in Nat
    /\ version \in [Runs -> 0..changes]
    /\ heard \in Seq([run : Runs, faces : SUBSET Faces])
    /\ unheard \subseteq Runs /\ troubled \subseteq Runs

\* The store has not changed unless the version says so; only snapshotted
\* faces are labelled and suggested; a fallback has a reason.
SnapshotInv ==
    \A r \in Runs :
        /\ stage[r] \in {"waiting", "clustering"} => labels[r] = NoLabels /\ hits[r] = {}
        /\ stage[r] # "waiting" /\ version[r] = changes => stored = snap[r]
        /\ stage[r] = "posting" =>
              DOMAIN labels[r] = snap[r] /\ \A h \in hits[r] : h[2] \in snap[r]
        /\ stage[r] = "fallback" => r \in troubled \/ ~ (snap[r] \subseteq known)

\* Only runs that are past their callback have been heard.
HeardInv ==
    \A i \in DOMAIN heard :
        LET r == heard[i].run
        IN  stage[r] = "done" \/ (stage[r] = "fallback" /\ r \in unheard)

\* A run that reads after another one in flight overlaps it.
OverlapInv ==
    \A r \in InFlight, q \in Runs :
        stage[q] # "waiting" /\ version[r] < version[q] => {r, q} \in overlapped

ClusteringInv ==
    /\ CTypeOK /\ SnapshotInv /\ HeardInv /\ OverlapInv
    /\ SuggestedOnlyBeyondEps /\ LeftOutOnlyIfCrowdedOrApart
    /\ AnsweredInOrder /\ AnsweredOnce /\ EmptyOnlyIfSpoiled
===============================================================================
