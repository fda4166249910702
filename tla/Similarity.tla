------------------------------- MODULE Similarity -------------------------------
(***************************************************************************)
(* What the embedding store finds for a face, how FaceClusterer groups     *)
(* faces, and which faces of other groups are suggested for review, as     *)
(* operators over a set of faces.                                          *)
(*                                                                         *)
(* An embedding is a place, and only distances between places matter.  The *)
(* clusterer measures 1 - cosine; the search measures what its backend     *)
(* does: pgvector the same, vec0 the Euclidean distance.  vec0 compares    *)
(* the query with every row; PostgreSQL does too, or it scans the IVFFlat  *)
(* index, which keeps the embeddings in lists and looks through one list,  *)
(* that of the query.  Of equally good answers any may come first.         *)
(***************************************************************************)
EXTENDS Integers, FiniteSets, FiniteSetsExt

CONSTANTS
    Faces,          \* faces Lychee may ever have
    Places,         \* embeddings
    CosDist,        \* CosDist[p][q]: the distance DBSCAN is given
    Engines,        \* backends of the search: dist[p][q], the distance it sees,
                    \*   and list[p], the list of its index that holds p
    Radius,         \* 1 - settings.match_threshold
    MinSamples,     \* min_samples of FaceClusterer
    MaxPerFace,     \* max_per_face
    Headroom        \* matches to look at beyond those: 10 in the code

ASSUME SimilarityAssumption ==
    /\ IsFiniteSet(Faces)
    /\ CosDist \in [Places -> [Places -> Nat]]
    /\ \A p, q \in Places : CosDist[p][q] = CosDist[q][p]
    /\ \A p \in Places : CosDist[p][p] = 0
    /\ \A e \in Engines :
          e.dist \in [Places -> [Places -> Nat]] /\ DOMAIN e.list = Places
    /\ Radius \in Nat /\ MinSamples \in Nat \ {0}
    /\ MaxPerFace \in Nat \ {0} /\ Headroom \in Nat

VARIABLES
    place,      \* place[f]: the embedding of face f
    eps,        \* settings.cluster_eps
    engine      \* the backend, with the lists its index was made with

Near(f, g)      == CosDist[place[f]][place[g]] <= eps
Away(f, g)      == engine.dist[place[f]][place[g]]
SameList(f, g)  == engine.list[place[f]] = engine.list[place[g]]

-------------------------------------------------------------------------------
(* FaceClusterer.cluster: DBSCAN.  A cluster is labelled by its core faces. *)

Core(S) == {f \in S : Cardinality({g \in S : Near(f, g)}) >= MinSamples}

\* What f reaches within C.
Component(f, C) ==
    {g \in C : \A D \in SUBSET C :
        (f \in D /\ \A a \in D, b \in C : Near(a, b) => b \in D) => g \in D}

Noise == {}

\* A face that is not a core face joins a cluster next to it, if there is one.
LabelsOf(f, S) ==
    LET around == {Component(g, Core(S)) : g \in {h \in Core(S) : Near(f, h)}}
    IN  IF f \in Core(S) THEN {Component(f, Core(S))}
        ELSE IF around = {} THEN {Noise} ELSE around

\* The functions that take one of the given choices everywhere.
Selections(choices) ==
    {h \in [DOMAIN choices -> UNION {choices[x] : x \in DOMAIN choices}] :
        \A x \in DOMAIN choices : h[x] \in choices[x]}

Labellings(S) == Selections([f \in S |-> LabelsOf(f, S)])

-------------------------------------------------------------------------------
(* similarity_search *)

\* The k members of S that are closest to f, or all of a smaller S.
Best(f, S, k) ==
    {T \in SUBSET S :
        /\ Cardinality(T) = Min({k, Cardinality(S)})
        /\ \A t \in T, u \in S \ T : Away(f, t) <= Away(f, u)}

Within(f, S) == {g \in S : Away(f, g) <= Radius}

\* The rows a search around f compares it with: all of them, or one list.
Scans(f, S) == {S, {g \in S : SameList(f, g)}}

\* What a search around f may prefer to g.
Closer(f, g, S) == {h \in Within(f, S) : Away(f, h) <= Away(f, g)} \ {g}

Search(f, S, limit) == UNION {Best(f, Within(f, P), limit) : P \in Scans(f, S)}

-------------------------------------------------------------------------------
(* _generate_cross_cluster_suggestions *)

Limit == MaxPerFace + Headroom

ElsewhereOrSame(f, lab, M) == {g \in M : g \in DOMAIN lab /\ lab[g] # Noise}

ElsewhereOrNew(f, lab, M) ==
    {g \in M : g \in DOMAIN lab => lab[g] # lab[f] /\ lab[g] # Noise}

\* Those matches that were clustered, in another cluster than f.
Elsewhere(f, lab, M) ==
    {g \in M : g \in DOMAIN lab /\ lab[g] # lab[f] /\ lab[g] # Noise}

SuggestionsWithoutHeadroom(f, lab, S) ==
    UNION {Best(f, Elsewhere(f, lab, M), MaxPerFace) : M \in Search(f, S, MaxPerFace)}

Suggestions(f, lab, S) ==
    UNION {Best(f, Elsewhere(f, lab, M), MaxPerFace) : M \in Search(f, S, Limit)}

\* One search for each face that is not noise.
AllSuggestions(lab, S) ==
    {UNION {{f} \X found[f] : f \in DOMAIN found} :
        found \in Selections([f \in {g \in DOMAIN lab : lab[g] # Noise} |->
                                 Suggestions(f, lab, S)])}
===============================================================================
