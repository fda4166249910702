---------------------------- MODULE ClusteringProofs ----------------------------
(***************************************************************************)
(* What Lychee may rely on in the results of clustering, for any embeddings *)
(* and distances, any number of overlapping runs and any changes meanwhile. *)
(***************************************************************************)
EXTENDS Clustering, FiniteSetTheorems, SequenceTheorems, TLAPS

-------------------------------------------------------------------------------
(* Operators of Similarity *)

\* A selection has the domain of its choices and takes one of each.
LEMMA SelectionTakes ==
  ASSUME NEW choices, NEW h \in Selections(choices)
  PROVE  DOMAIN h = DOMAIN choices /\ \A x \in DOMAIN choices : h[x] \in choices[x]
  BY DEF Selections

\* Every face of the snapshot gets one of its labels, and no other face does.
LEMMA LabellingLabels ==
  ASSUME NEW S, NEW lab \in Labellings(S)
  PROVE  DOMAIN lab = S /\ \A f \in S : lab[f] \in LabelsOf(f, S)
  BY SelectionTakes DEF Labellings

\* The suggestions of a run are those of each of its faces that is not noise.
LEMMA SuggestionsAreOfFaces ==
  ASSUME NEW lab, NEW S, NEW H \in AllSuggestions(lab, S)
  PROVE  \E found :
            /\ \A f \in DOMAIN lab : lab[f] # Noise => found[f] \in Suggestions(f, lab, S)
            /\ \A f, g : <<f, g>> \in H <=>
                  f \in DOMAIN lab /\ lab[f] # Noise /\ g \in found[f]
            /\ \A h \in H : h = <<h[1], h[2]>>
<1> DEFINE Grouped == {f \in DOMAIN lab : lab[f] # Noise}
           choices == [f \in Grouped |-> Suggestions(f, lab, S)]
<1>1. PICK found \in Selections(choices) : H = UNION {{f} \X found[f] : f \in DOMAIN found}
  BY DEF AllSuggestions
<1>2. DOMAIN found = Grouped /\ \A f \in Grouped : found[f] \in Suggestions(f, lab, S)
  BY SelectionTakes
<1> QED
  BY <1>1, <1>2

\* Suggested for a face are labelled faces of other clusters.
LEMMA SuggestedElsewhere ==
  ASSUME NEW f, NEW lab, NEW S, NEW T \in Suggestions(f, lab, S), NEW g \in T
  PROVE  g \in DOMAIN lab /\ lab[g] # lab[f] /\ lab[g] # Noise
  BY DEF Suggestions, Best, Elsewhere

\* Every suggestion pairs two labelled faces of different clusters.
LEMMA SuggestionsCross ==
  ASSUME NEW lab, NEW S, NEW H \in AllSuggestions(lab, S), NEW h \in H
  PROVE  h[1] \in DOMAIN lab /\ h[2] \in DOMAIN lab /\ lab[h[1]] # lab[h[2]]
  BY SuggestionsAreOfFaces, SuggestedElsewhere

\* With one sample enough, a face is a core face by itself.
LEMMA EveryFaceIsCore ==
  ASSUME CTypeOK, MinSamples = 1, NEW S \in SUBSET Faces
  PROVE  Core(S) = S
<1> SUFFICES ASSUME NEW f \in S PROVE Cardinality({g \in S : Near(f, g)}) >= 1
  BY DEF Core
<1>1. Near(f, f)
  BY SimilarityAssumption, ClusteringAssumption DEF SimilarityAssumption,
       ClusteringAssumption, CTypeOK, Near
<1>2. IsFiniteSet({g \in S : Near(f, g)})
  BY SimilarityAssumption, FS_Subset DEF SimilarityAssumption
<1> QED
  BY <1>1, <1>2, FS_EmptySet, FS_CardinalityType

\* Neighbours reach the same faces.
LEMMA NeighboursShareComponent ==
  ASSUME CTypeOK, NEW C \in SUBSET Faces, NEW f \in C, NEW g \in C, Near(f, g)
  PROVE  Component(f, C) = Component(g, C)
<1>1. Near(g, f)
  BY SimilarityAssumption DEF SimilarityAssumption, CTypeOK, Near
<1>2. \A D \in SUBSET C : (\A a \in D, b \in C : Near(a, b) => b \in D)
                             => (f \in D <=> g \in D)
  BY <1>1
<1> QED
  BY <1>2, Zenon DEF Component

\* With one sample enough, neighbours have the same label.
LEMMA NeighboursShareLabel ==
  ASSUME CTypeOK, MinSamples = 1, NEW S \in SUBSET Faces, NEW lab \in Labellings(S),
         NEW f \in S, NEW g \in S, Near(f, g)
  PROVE  lab[f] = lab[g]
<1>1. LabelsOf(f, S) = {Component(f, S)} /\ LabelsOf(g, S) = {Component(g, S)}
  BY EveryFaceIsCore DEF LabelsOf
<1> QED
  BY <1>1, LabellingLabels, NeighboursShareComponent

\* The smaller of two numbers.
LEMMA MinOfTwo ==
  ASSUME NEW a \in Nat, NEW b \in Nat
  PROVE  Min({a, b}) = IF a <= b THEN a ELSE b
  BY DEF Min

\* What a search for at most k leaves out is no closer than the k it returns.
LEMMA BestLeavesOut ==
  ASSUME NEW f, NEW S, IsFiniteSet(S), NEW k \in Nat, NEW T \in Best(f, S, k),
         NEW g \in S \ T
  PROVE  /\ T \subseteq S /\ Cardinality(T) = k
         /\ \A t \in T : Away(f, t) <= Away(f, g)
<1>1. /\ T \in SUBSET S /\ Cardinality(T) = Min({k, Cardinality(S)})
      /\ \A t \in T : Away(f, t) <= Away(f, g)
  BY DEF Best
<1>2. Cardinality(S) \in Nat /\ Cardinality(T) # Cardinality(S)
  BY <1>1, FS_CardinalityType, FS_Subset
<1> QED
  BY <1>1, <1>2, MinOfTwo

\* A face that the suggestions of a snapshot leave out is crowded out, or the
\* index has it in another list.
LEMMA SearchLeavesOutTheCrowded ==
  ASSUME NEW S, IsFiniteSet(S), NEW lab, DOMAIN lab = S, NEW H \in AllSuggestions(lab, S),
         NEW f \in S, lab[f] # Noise, NEW g \in Elsewhere(f, lab, Within(f, S)),
         <<f, g>> \notin H, SameList(f, g)
  PROVE  \/ Cardinality({h \in Closer(f, g, S) : <<f, h>> \in H}) = MaxPerFace
         \/ Cardinality(Closer(f, g, S)) >= Limit
<1>1. PICK T \in Suggestions(f, lab, S) : \A h : <<f, h>> \in H <=> h \in T
  BY SuggestionsAreOfFaces
<1>2. PICK M \in Search(f, S, Limit) : T \in Best(f, Elsewhere(f, lab, M), MaxPerFace)
  BY DEF Suggestions
<1>3. PICK P \in Scans(f, S) : M \in Best(f, Within(f, P), Limit)
  BY <1>2 DEF Search
<1>4. /\ IsFiniteSet(Within(f, P)) /\ IsFiniteSet(Closer(f, g, S))
      /\ Within(f, P) \subseteq Within(f, S)
      /\ g \in Within(f, P) /\ lab[g] # lab[f] /\ g \in DOMAIN lab /\ lab[g] # Noise
      /\ Limit \in Nat /\ MaxPerFace \in Nat
  <2>1. P \subseteq S /\ \A h \in S : SameList(f, h) => h \in P
    BY <1>3 DEF Scans
  <2>2. g \in S /\ g \in Within(f, S) /\ lab[g] # lab[f] /\ g \in DOMAIN lab /\ lab[g] # Noise
    BY DEF Elsewhere, Within
  <2>3. IsFiniteSet(Within(f, P)) /\ IsFiniteSet(Closer(f, g, S))
    BY <2>1, FS_Subset DEF Within, Closer
  <2> QED
    BY <2>1, <2>2, <2>3, SimilarityAssumption DEF Within, Limit, SimilarityAssumption
<1>5. CASE g \notin M
  <2>1. /\ M \subseteq Within(f, P) /\ Cardinality(M) = Limit
        /\ \A t \in M : Away(f, t) <= Away(f, g)
    <3> DEFINE W == Within(f, P)
    <3>1. M \in Best(f, W, Limit) /\ IsFiniteSet(W) /\ g \in W \ M /\ Limit \in Nat
      BY <1>3, <1>4, <1>5
    <3> HIDE DEF W
    <3>2. M \subseteq W /\ Cardinality(M) = Limit /\ \A t \in M : Away(f, t) <= Away(f, g)
      BY <3>1, BestLeavesOut
    <3> QED
      BY <3>2 DEF W
  <2>2. M \in SUBSET Closer(f, g, S)
    BY <1>4, <1>5, <2>1 DEF Closer
  <2>3. Cardinality(M) <= Cardinality(Closer(f, g, S)) /\ Cardinality(Closer(f, g, S)) \in Nat
    BY <1>4, <2>2, FS_Subset, FS_CardinalityType
  <2> QED
    BY <1>4, <2>1, <2>3
<1>6. CASE g \in M
  <2>1. /\ IsFiniteSet(M) /\ M \subseteq Within(f, S)
        /\ IsFiniteSet(Elsewhere(f, lab, M)) /\ g \in Elsewhere(f, lab, M) /\ g \notin T
    BY <1>1, <1>3, <1>4, <1>6, FS_Subset DEF Best, Elsewhere
  <2>2. /\ T \subseteq Elsewhere(f, lab, M) /\ Cardinality(T) = MaxPerFace
        /\ \A t \in T : Away(f, t) <= Away(f, g)
    <3> DEFINE E == Elsewhere(f, lab, M)
    <3>1. T \in Best(f, E, MaxPerFace) /\ IsFiniteSet(E) /\ g \in E \ T /\ MaxPerFace \in Nat
      BY <1>2, <1>4, <2>1
    <3> HIDE DEF E
    <3>2. T \subseteq E /\ Cardinality(T) = MaxPerFace /\ \A t \in T : Away(f, t) <= Away(f, g)
      BY <3>1, BestLeavesOut
    <3> QED
      BY <3>2 DEF E
  <2>3. {h \in Closer(f, g, S) : <<f, h>> \in H} = T
    BY <1>1, <2>1, <2>2 DEF Closer, Elsewhere
  <2> QED
    BY <2>2, <2>3
<1> QED
  BY <1>5, <1>6

-------------------------------------------------------------------------------
(* The invariant *)

\* Those who were heard are runs.
LEMMA HeardAreRuns == CTypeOK => \A i \in DOMAIN heard : heard[i].run \in Runs
<1> SUFFICES ASSUME CTypeOK, NEW i \in DOMAIN heard PROVE heard[i].run \in Runs
  OBVIOUS
<1>1. heard[i] \in [run : Runs, faces : SUBSET Faces]
  BY LenProperties, ElementOfSeq, Zenon DEF CTypeOK
<1> QED
  BY <1>1

\* An answer is appended to what was heard.
LEMMA HeardGrows ==
  ASSUME CTypeOK, NEW r \in Runs, NEW S \in SUBSET Faces, Answer(r, S)
  PROVE  /\ DOMAIN heard' = 1..(Len(heard) + 1) /\ DOMAIN heard = 1..Len(heard)
         /\ Len(heard) \in Nat /\ heard'[Len(heard) + 1] = [run |-> r, faces |-> S]
         /\ heard' \in Seq([run : Runs, faces : SUBSET Faces])
         /\ \A i \in 1..Len(heard) : heard'[i] = heard[i]
<1> DEFINE Answers == [run : Runs, faces : SUBSET Faces]
           new == [run |-> r, faces |-> S]
<1>1. heard \in Seq(Answers) /\ new \in Answers /\ heard' = Append(heard, new)
  BY DEF CTypeOK, Answer
<1> HIDE DEF Answers, new
<1>2. /\ heard' \in Seq(Answers) /\ Len(heard') = Len(heard) + 1
      /\ \A i \in 1..Len(heard) : heard'[i] = heard[i]
      /\ heard'[Len(heard) + 1] = new
  BY <1>1, AppendProperties
<1>3. DOMAIN heard' = 1..Len(heard') /\ DOMAIN heard = 1..Len(heard) /\ Len(heard) \in Nat
  BY <1>1, <1>2, LenProperties
<1> QED
  BY <1>2, <1>3 DEF Answers, new

\* A run that is left alone leaves out what it left out.
LEMMA LeavingOutStays ==
  ASSUME NEW r, LeavesOutTheCrowded(r), UNCHANGED <<place, engine, stored>>,
         labels'[r] = labels[r], hits'[r] = hits[r], snap'[r] = snap[r]
  PROVE  LeavesOutTheCrowded(r)'
<1>1. \A f : Elsewhere(f, labels[r], Within(f, snap[r]))'
               = Elsewhere(f, labels[r], Within(f, snap[r]))
  BY DEF Elsewhere, Within, Away
<1>2. \A f, g : Closer(f, g, stored)' = Closer(f, g, stored)
  BY DEF Closer, Within, Away
<1>3. \A f, g : SuggestsOrCrowds(r, f, g)' <=> SuggestsOrCrowds(r, f, g)
  <2>1. \A f, g : Preferred(r, f, g)' = Preferred(r, f, g)
    BY <1>2 DEF Preferred
  <2> QED
    BY <1>2, <2>1 DEF SuggestsOrCrowds, SameList
<1> QED
  BY <1>1, <1>3 DEF LeavesOutTheCrowded

\* Steps that label nothing and do not move a run to "posting" keep what is
\* suggested and what is left out.
LEMMA NothingNewLeftOut ==
  ASSUME SuggestedOnlyBeyondEps, LeftOutOnlyIfCrowdedOrApart,
         UNCHANGED <<place, eps, engine, stored, changes, snap, labels, hits, version>>,
         \A r \in Runs : stage'[r] = "posting" => stage[r] = "posting"
  PROVE  SuggestedOnlyBeyondEps' /\ LeftOutOnlyIfCrowdedOrApart'
<1>1. ASSUME NEW r \in Runs, LeavesOutTheCrowded(r) PROVE LeavesOutTheCrowded(r)'
  BY <1>1, LeavingOutStays
<1> QED
  BY <1>1 DEF SuggestedOnlyBeyondEps, LeftOutOnlyIfCrowdedOrApart, Near

\* No run has read, nobody has been answered.
LEMMA InitClustering == CInit => ClusteringInv
<1> SUFFICES ASSUME CInit PROVE ClusteringInv
  OBVIOUS
<1> USE ClusteringAssumption DEF ClusteringAssumption, CInit
<1>1. CTypeOK
  BY DEF CTypeOK, Stages
<1>2. SnapshotInv /\ HeardInv /\ OverlapInv
  BY DEF SnapshotInv, HeardInv, OverlapInv, InFlight
<1>3. SuggestedOnlyBeyondEps /\ LeftOutOnlyIfCrowdedOrApart
  BY DEF SuggestedOnlyBeyondEps, LeftOutOnlyIfCrowdedOrApart
<1>4. AnsweredInOrder /\ AnsweredOnce /\ EmptyOnlyIfSpoiled
  BY DEF AnsweredInOrder, AnsweredOnce, EmptyOnlyIfSpoiled
<1> QED
  BY <1>1, <1>2, <1>3, <1>4 DEF ClusteringInv

\* Faces come and go; runs and what was heard stay.
LEMMA ChangeKeepsInv ==
  ASSUME ClusteringInv, changes' = changes + 1, UNCHANGED <<data, run, left, chist>>,
         stored' \subseteq Faces, known' \subseteq known
  PROVE  ClusteringInv'
<1> USE DEF ClusteringInv, data, run, chist
<1>1. CTypeOK'
  BY DEF CTypeOK
<1>2. \A r \in Runs : version'[r] # changes'
  BY DEF CTypeOK
<1>3. SnapshotInv'
  BY <1>2 DEF SnapshotInv, CTypeOK
<1>4. HeardInv' /\ OverlapInv'
  BY DEF HeardInv, OverlapInv, InFlight
<1>5. SuggestedOnlyBeyondEps' /\ LeftOutOnlyIfCrowdedOrApart'
  BY <1>2 DEF SuggestedOnlyBeyondEps, LeftOutOnlyIfCrowdedOrApart, Near
<1>6. AnsweredInOrder' /\ AnsweredOnce' /\ EmptyOnlyIfSpoiled'
  BY DEF AnsweredInOrder, AnsweredOnce, EmptyOnlyIfSpoiled
<1> QED
  BY <1>1, <1>3, <1>4, <1>5, <1>6

\* A run reads a snapshot as new as the store.
LEMMA ReadKeepsInv ==
  ASSUME ClusteringInv, NEW r \in Runs, Read(r)
  PROVE  ClusteringInv'
<1> USE DEF ClusteringInv, Read, data, world, Goto
<1>1. CTypeOK'
  BY DEF CTypeOK, Stages
<1>2. SnapshotInv'
  BY DEF SnapshotInv, CTypeOK, NoLabels
<1>3. HeardInv'
  BY DEF HeardInv, CTypeOK
<1>4. OverlapInv'
  <2> SUFFICES ASSUME NEW s \in InFlight', NEW q \in Runs, stage'[q] # "waiting",
                      version'[s] < version'[q]
               PROVE  {s, q} \in overlapped'
    BY DEF OverlapInv
  <2>1. s # r
    BY DEF CTypeOK
  <2>2. s \in InFlight
    BY <2>1 DEF InFlight, CTypeOK
  <2>3. CASE q = r
    BY <2>2, <2>3
  <2>4. CASE q # r
    BY <2>1, <2>2, <2>4 DEF OverlapInv, CTypeOK
  <2> QED
    BY <2>3, <2>4
<1>5. SuggestedOnlyBeyondEps'
  BY DEF SuggestedOnlyBeyondEps, Near
<1>6. LeftOutOnlyIfCrowdedOrApart'
  <2>1. DOMAIN labels'[r] = {}
    BY DEF SnapshotInv, NoLabels
  <2>2. \A s \in Runs \ {r} : /\ stage'[s] = stage[s] /\ snap'[s] = snap[s]
                               /\ version'[s] = version[s]
    BY DEF CTypeOK
  <2>3. LeavesOutTheCrowded(r)'
    BY <2>1 DEF LeavesOutTheCrowded
  <2>4. ASSUME NEW s \in Runs \ {r}, LeavesOutTheCrowded(s) PROVE LeavesOutTheCrowded(s)'
    BY <2>2, <2>4, LeavingOutStays
  <2> QED
    BY <2>2, <2>3, <2>4 DEF LeftOutOnlyIfCrowdedOrApart
<1>7. AnsweredInOrder' /\ AnsweredOnce' /\ EmptyOnlyIfSpoiled'
  <2>1. \A i \in DOMAIN heard : heard[i].run \in Runs \ {r}
    BY HeardAreRuns DEF HeardInv
  <2>2. AnsweredInOrder'
    BY <2>1 DEF AnsweredInOrder, CTypeOK
  <2>3. AnsweredOnce'
    BY DEF AnsweredOnce
  <2>4. EmptyOnlyIfSpoiled'
    BY <2>1 DEF EmptyOnlyIfSpoiled, CTypeOK
  <2> QED
    BY <2>2, <2>3, <2>4
<1> QED
  BY <1>1, <1>2, <1>3, <1>4, <1>5, <1>6, <1>7

\* What is labelled and suggested is told apart and left out as promised.
LEMMA LabelKeepsInv ==
  ASSUME ClusteringInv, NEW r \in Runs, Label(r)
  PROVE  ClusteringInv'
<1> USE DEF ClusteringInv, data, world, chist, Goto
<1>0. PICK lab \in Labellings(snap[r]) :
         /\ labels' = [labels EXCEPT ![r] = lab]
         /\ \E H \in AllSuggestions(lab, stored) : hits' = [hits EXCEPT ![r] = H]
  BY DEF Label
<1>1. PICK H \in AllSuggestions(lab, stored) :
         labels' = [labels EXCEPT ![r] = lab] /\ hits' = [hits EXCEPT ![r] = H]
  BY <1>0
<1>2. /\ stage[r] = "clustering" /\ stage' = [stage EXCEPT ![r] = "posting"]
      /\ UNCHANGED <<data, world, snap, left, chist>>
  BY DEF Label
<1>3. CTypeOK'
  BY <1>1, <1>2 DEF CTypeOK, Stages
<1>4. /\ snap[r] \in SUBSET Faces /\ labels'[r] = lab /\ hits'[r] = H /\ stage'[r] = "posting"
      /\ \A s \in Runs \ {r} : /\ stage'[s] = stage[s]
                              /\ labels'[s] = labels[s] /\ hits'[s] = hits[s]
  BY <1>1, <1>2 DEF CTypeOK
<1>5. DOMAIN lab = snap[r] /\ \A f \in snap[r] : lab[f] \in LabelsOf(f, snap[r])
  BY LabellingLabels
<1>6. \A h \in H : h[1] \in snap[r] /\ h[2] \in snap[r] /\ lab[h[1]] # lab[h[2]]
  BY <1>5, SuggestionsCross
<1>7. SnapshotInv'
  BY <1>2, <1>4, <1>5, <1>6 DEF SnapshotInv
<1>8. HeardInv' /\ OverlapInv'
  BY <1>2, <1>4, HeardAreRuns DEF HeardInv, OverlapInv, InFlight
<1>9. SuggestedOnlyBeyondEps'
  <2> SUFFICES ASSUME MinSamples = 1, NEW h \in H PROVE ~ Near(h[1], h[2])
    BY <1>2, <1>4 DEF SuggestedOnlyBeyondEps, Near
  <2> QED
    BY <1>4, <1>6, NeighboursShareLabel
<1>10. LeftOutOnlyIfCrowdedOrApart'
  <2>1. ASSUME NEW s \in Runs \ {r}, LeavesOutTheCrowded(s) PROVE LeavesOutTheCrowded(s)'
    BY <1>2, <1>4, <2>1, LeavingOutStays
  <2>2. ASSUME version[r] = changes PROVE LeavesOutTheCrowded(r)'
    <3>1. stored = snap[r] /\ IsFiniteSet(stored)
      BY <1>2, <2>2, SimilarityAssumption, FS_Subset
         DEF SnapshotInv, CTypeOK, SimilarityAssumption
    <3>2. \A f : Elsewhere(f, labels[r], Within(f, snap[r]))'
                   = Elsewhere(f, lab, Within(f, stored))
      BY <1>2, <1>4, <3>1 DEF Elsewhere, Within, Away
    <3>3. \A f, g : Closer(f, g, stored)' = Closer(f, g, stored)
      BY <1>2 DEF Closer, Within, Away
    <3>4. ASSUME NEW f \in stored, NEW g \in Elsewhere(f, lab, Within(f, stored)),
                 lab[f] # Noise, <<f, g>> \notin H, SameList(f, g)
          PROVE  \/ Cardinality({h \in Closer(f, g, stored) : <<f, h>> \in H}) = MaxPerFace
                 \/ Cardinality(Closer(f, g, stored)) >= Limit
      <4>1. DOMAIN lab = stored
        BY <1>5, <3>1
      <4> QED
        BY <3>1, <3>4, <4>1, SearchLeavesOutTheCrowded
    <3>5. labels'[r] = lab /\ hits'[r] = H /\ DOMAIN lab = stored
      BY <1>4, <1>5, <3>1
    <3>6. \A f, g : Preferred(r, f, g)' = {h \in Closer(f, g, stored) : <<f, h>> \in H}
      BY <3>3, <3>5 DEF Preferred
    <3>7. ASSUME NEW f \in stored, NEW g \in Elsewhere(f, lab, Within(f, stored))
          PROVE  SuggestsOrCrowds(r, f, g)'
      BY <1>2, <3>3, <3>4, <3>5, <3>6, <3>7 DEF SuggestsOrCrowds, SameList
    <3> QED
      BY <3>2, <3>5, <3>7 DEF LeavesOutTheCrowded
  <2> QED
    BY <1>2, <1>4, <2>1, <2>2 DEF LeftOutOnlyIfCrowdedOrApart
<1>11. AnsweredInOrder' /\ AnsweredOnce' /\ EmptyOnlyIfSpoiled'
  BY <1>2 DEF AnsweredInOrder, AnsweredOnce, EmptyOnlyIfSpoiled
<1> QED
  BY <1>3, <1>7, <1>8, <1>9, <1>10, <1>11

\* An answer to run r comes after all that were heard before.
LEMMA AnswerKeepsOrder ==
  ASSUME ClusteringInv, NEW r \in InFlight, NEW S \in SUBSET Faces, Answer(r, S),
         UNCHANGED <<version, overlapped>>
  PROVE  AnsweredInOrder'
<1>1. /\ DOMAIN heard' = 1..(Len(heard) + 1) /\ DOMAIN heard = 1..Len(heard)
      /\ Len(heard) \in Nat /\ heard'[Len(heard) + 1] = [run |-> r, faces |-> S]
      /\ \A i \in 1..Len(heard) : heard'[i] = heard[i]
  BY HeardGrows, Zenon DEF ClusteringInv, InFlight
<1> SUFFICES ASSUME NEW i \in DOMAIN heard', NEW j \in DOMAIN heard', i < j,
                    version[heard'[j].run] < version[heard'[i].run]
             PROVE  {heard'[i].run, heard'[j].run} \in overlapped
  BY DEF AnsweredInOrder
<1>2. i \in DOMAIN heard /\ heard'[i] = heard[i]
  BY <1>1
<1>3. CASE j \in DOMAIN heard
  BY <1>1, <1>2, <1>3 DEF ClusteringInv, AnsweredInOrder
<1>4. CASE j = Len(heard) + 1
  <2>1. heard[i].run \in Runs /\ stage[heard[i].run] # "waiting"
    BY <1>2, HeardAreRuns DEF ClusteringInv, HeardInv
  <2>2. heard'[j].run = r /\ heard'[i].run = heard[i].run
    BY <1>1, <1>2, <1>4
  <2>3. {r, heard[i].run} \in overlapped
    BY <2>1, <2>2 DEF ClusteringInv, OverlapInv
  <2>4. {r, heard[i].run} = {heard[i].run, r}
    OBVIOUS
  <2> QED
    BY <2>2, <2>3, <2>4
<1> QED
  BY <1>1, <1>3, <1>4

\* The posted results are the first answer to a run, and they are empty only
\* if it read nothing.
LEMMA AcceptKeepsInv ==
  ASSUME ClusteringInv, NEW r \in Runs, Accept(r)
  PROVE  ClusteringInv'
<1> USE DEF data, world, Goto
<1>1. /\ stage[r] = "posting" /\ Answer(r, snap[r]) /\ snap[r] \in SUBSET Faces
      /\ UNCHANGED <<data, world, snap, labels, hits, version, overlapped>>
  BY DEF Accept, ClusteringInv, SnapshotInv, CTypeOK
<1>2. PICK to \in {"done", "fallback"} :
         /\ stage' = [stage EXCEPT ![r] = to]
         /\ \/ to = "done" /\ UNCHANGED <<left, unheard, troubled>>
            \/ /\ to = "fallback" /\ left > 0 /\ left' = left - 1
               /\ troubled' = troubled \cup {r} /\ unheard' = unheard \cup {r}
  BY DEF Accept, Suffer
<1>3. /\ stage'[r] = to /\ \A s \in Runs \ {r} : stage'[s] = stage[s]
      /\ stage' \in [Runs -> Stages] /\ r \in InFlight
  BY <1>1, <1>2 DEF ClusteringInv, CTypeOK, Stages, InFlight
<1>4. /\ DOMAIN heard' = 1..(Len(heard) + 1) /\ DOMAIN heard = 1..Len(heard)
      /\ Len(heard) \in Nat /\ heard'[Len(heard) + 1] = [run |-> r, faces |-> snap[r]]
      /\ heard' \in Seq([run : Runs, faces : SUBSET Faces])
      /\ \A i \in 1..Len(heard) : heard'[i] = heard[i]
  BY <1>1, HeardGrows DEF ClusteringInv
<1>5. \A i \in DOMAIN heard : heard[i].run \in Runs \ {r}
  BY <1>1, HeardAreRuns DEF ClusteringInv, HeardInv
<1>6. CTypeOK'
  BY <1>1, <1>2, <1>3, <1>4 DEF ClusteringInv, CTypeOK
<1>7. SnapshotInv'
  BY <1>1, <1>2, <1>3 DEF ClusteringInv, SnapshotInv
<1>8. HeardInv'
  BY <1>2, <1>3, <1>4, <1>5 DEF ClusteringInv, HeardInv
<1>9. OverlapInv'
  BY <1>1, <1>2, <1>3 DEF ClusteringInv, OverlapInv, InFlight
<1>10. SuggestedOnlyBeyondEps' /\ LeftOutOnlyIfCrowdedOrApart'
  BY <1>1, <1>2, <1>3, NothingNewLeftOut DEF ClusteringInv
<1>11. AnsweredInOrder'
  BY <1>1, <1>3, AnswerKeepsOrder
<1>12. AnsweredOnce'
  BY <1>2, <1>4, <1>5 DEF ClusteringInv, AnsweredOnce
<1>13. EmptyOnlyIfSpoiled'
  BY <1>1, <1>2, <1>4 DEF ClusteringInv, EmptyOnlyIfSpoiled
<1> QED
  BY <1>6, <1>7, <1>8, <1>9, <1>10, <1>11, <1>12, <1>13 DEF ClusteringInv

\* The empty answer is the last one to its run, and has a reason.
LEMMA AcceptEmptyKeepsInv ==
  ASSUME ClusteringInv, NEW r \in Runs, AcceptEmpty(r)
  PROVE  ClusteringInv'
<1> USE DEF data, world, Goto
<1>1. /\ stage[r] = "fallback" /\ Answer(r, {}) /\ stage' = [stage EXCEPT ![r] = "done"]
      /\ UNCHANGED <<data, world, snap, labels, hits, left, version, overlapped,
                     unheard, troubled>>
  BY DEF AcceptEmpty
<1>2. /\ stage'[r] = "done" /\ \A s \in Runs \ {r} : stage'[s] = stage[s]
      /\ stage' \in [Runs -> Stages] /\ r \in InFlight
  BY <1>1 DEF ClusteringInv, CTypeOK, Stages, InFlight
<1>3. /\ DOMAIN heard' = 1..(Len(heard) + 1) /\ DOMAIN heard = 1..Len(heard)
      /\ Len(heard) \in Nat /\ heard'[Len(heard) + 1] = [run |-> r, faces |-> {}]
      /\ heard' \in Seq([run : Runs, faces : SUBSET Faces])
      /\ \A i \in 1..Len(heard) : heard'[i] = heard[i]
  BY <1>1, HeardGrows DEF ClusteringInv
<1>4. \A i \in DOMAIN heard : heard[i].run \in Runs
  BY HeardAreRuns DEF ClusteringInv
<1>5. CTypeOK'
  BY <1>1, <1>2, <1>3 DEF ClusteringInv, CTypeOK
<1>6. SnapshotInv'
  BY <1>1, <1>2 DEF ClusteringInv, SnapshotInv
<1>7. HeardInv'
  BY <1>1, <1>2, <1>3, <1>4 DEF ClusteringInv, HeardInv
<1>8. OverlapInv'
  BY <1>1, <1>2 DEF ClusteringInv, OverlapInv, InFlight
<1>9. SuggestedOnlyBeyondEps' /\ LeftOutOnlyIfCrowdedOrApart'
  BY <1>1, <1>2, NothingNewLeftOut DEF ClusteringInv
<1>10. AnsweredInOrder'
  BY <1>1, <1>2, AnswerKeepsOrder
<1>11. AnsweredOnce'
  BY <1>1, <1>3, <1>4 DEF ClusteringInv, AnsweredOnce, HeardInv
<1>12. EmptyOnlyIfSpoiled'
  BY <1>1, <1>3 DEF ClusteringInv, EmptyOnlyIfSpoiled, SnapshotInv
<1> QED
  BY <1>5, <1>6, <1>7, <1>8, <1>9, <1>10, <1>11, <1>12 DEF ClusteringInv

\* A run that gives up, or falls back for a reason, is not heard meanwhile.
LEMMA FailureKeepsInv ==
  ASSUME ClusteringInv, NEW r \in Runs, Refuse(r) \/ Raise(r) \/ GiveUp(r)
  PROVE  ClusteringInv'
<1> USE DEF data, world, chist, Goto, Suffer
<1>1. /\ r \in InFlight
      /\ UNCHANGED <<data, world, snap, labels, hits, version, heard, overlapped, unheard>>
      /\ left' \in Nat /\ troubled \subseteq troubled' /\ troubled' \subseteq Runs
  BY DEF ClusteringInv, CTypeOK, Refuse, Raise, GiveUp, InFlight
<1>2. PICK to \in {"done", "fallback"} :
         /\ stage' = [stage EXCEPT ![r] = to]
         /\ to = "fallback" => /\ stage[r] \in {"clustering", "posting"}
                               /\ r \in troubled' \/ Refuse(r)
  BY DEF Refuse, Raise, GiveUp
<1>3. /\ stage'[r] = to /\ \A s \in Runs \ {r} : stage'[s] = stage[s]
      /\ stage' \in [Runs -> Stages]
  BY <1>2 DEF ClusteringInv, CTypeOK, Stages
<1>4. CTypeOK'
  BY <1>1, <1>3 DEF ClusteringInv, CTypeOK
<1>5. SnapshotInv'
  <2>1. Refuse(r) => ~ (snap[r] \subseteq known)
    BY DEF Refuse, Named, ClusteringInv, SnapshotInv
  <2>2. to = "fallback" => r \in troubled' \/ ~ (snap[r] \subseteq known)
    BY <1>2, <2>1
  <2>3. stage[r] # "waiting" /\ (version[r] = changes => stored = snap[r])
    BY <1>1 DEF InFlight, ClusteringInv, SnapshotInv
  <2>4. ASSUME NEW s \in Runs, s # r
        PROVE  /\ stage'[s] = stage[s] /\ snap'[s] = snap[s] /\ labels'[s] = labels[s]
               /\ hits'[s] = hits[s] /\ version'[s] = version[s]
               /\ s \in troubled => s \in troubled'
    BY <1>1, <1>3, <2>4
  <2>5. stored' = stored /\ known' = known /\ changes' = changes
    BY <1>1
  <2> SUFFICES ASSUME NEW s \in Runs
               PROVE  SnapshotInv!(s)'
    BY DEF SnapshotInv
  <2>6. CASE s = r
    BY <1>1, <1>3, <2>2, <2>3, <2>5, <2>6
  <2>7. CASE s # r
    BY <2>4, <2>5, <2>7 DEF ClusteringInv, SnapshotInv
  <2> QED
    BY <2>6, <2>7
<1>6. HeardInv'
  BY <1>1, <1>2, <1>3, HeardAreRuns DEF ClusteringInv, HeardInv
<1>7. OverlapInv'
  BY <1>1, <1>2, <1>3 DEF ClusteringInv, OverlapInv, InFlight
<1>8. SuggestedOnlyBeyondEps' /\ LeftOutOnlyIfCrowdedOrApart'
  BY <1>1, <1>2, <1>3, NothingNewLeftOut DEF ClusteringInv
<1>9. AnsweredInOrder' /\ AnsweredOnce' /\ EmptyOnlyIfSpoiled'
  BY <1>1 DEF ClusteringInv, AnsweredInOrder, AnsweredOnce, EmptyOnlyIfSpoiled
<1> QED
  BY <1>4, <1>5, <1>6, <1>7, <1>8, <1>9 DEF ClusteringInv

\* Every step keeps the invariant.
LEMMA NextClustering == ClusteringInv /\ [CNext]_cvars => ClusteringInv'
<1> SUFFICES ASSUME ClusteringInv, [CNext]_cvars PROVE ClusteringInv'
  OBVIOUS
<1>1. ASSUME NEW f \in Faces, Store(f) \/ Dismiss(f) \/ Delete(f) PROVE ClusteringInv'
  BY <1>1, ChangeKeepsInv DEF Store, Dismiss, Delete, Change, ClusteringInv, CTypeOK
<1>2. ASSUME NEW r \in Runs,
             Read(r) \/ Label(r) \/ Accept(r) \/ Refuse(r) \/ Raise(r) \/ AcceptEmpty(r)
               \/ GiveUp(r)
      PROVE  ClusteringInv'
  BY <1>2, ReadKeepsInv, LabelKeepsInv, AcceptKeepsInv, AcceptEmptyKeepsInv, FailureKeepsInv
<1>3. CASE UNCHANGED cvars
  <2>1. CTypeOK' /\ SnapshotInv' /\ HeardInv' /\ OverlapInv'
    BY <1>3 DEF ClusteringInv, cvars, data, world, run, chist, CTypeOK, SnapshotInv, HeardInv,
         OverlapInv, InFlight
  <2>2. SuggestedOnlyBeyondEps' /\ LeftOutOnlyIfCrowdedOrApart'
    BY <1>3, NothingNewLeftOut DEF ClusteringInv, cvars, data, world, run, chist
  <2>3. AnsweredInOrder' /\ AnsweredOnce' /\ EmptyOnlyIfSpoiled'
    BY <1>3 DEF ClusteringInv, cvars, run, world, chist, AnsweredInOrder, AnsweredOnce,
         EmptyOnlyIfSpoiled
  <2> QED
    BY <2>1, <2>2, <2>3 DEF ClusteringInv
<1> QED
  BY <1>1, <1>2, <1>3 DEF CNext

\* Every reachable state satisfies the invariant.
THEOREM ClusteringInvariant == CSpec => []ClusteringInv
  BY InitClustering, NextClustering, PTL DEF CSpec

\* Whatever the faces are, and however differently the clusterer and the
\* search measure them: no review is offered for two faces that DBSCAN takes
\* for neighbours, as every face is a core face when min_samples is 1.
THEOREM SuggestionsBeyondEps == CSpec => []SuggestedOnlyBeyondEps
<1>1. ClusteringInv => SuggestedOnlyBeyondEps
  BY DEF ClusteringInv
<1> QED
  BY <1>1, ClusteringInvariant, PTL

\* max_per_face, the ten matches beyond it and the lists of the index are the
\* only reasons to leave a face out, as long as the store stays as it was read.
THEOREM CrowdedOutOrApart == CSpec => []LeftOutOnlyIfCrowdedOrApart
<1>1. ClusteringInv => LeftOutOnlyIfCrowdedOrApart
  BY DEF ClusteringInv
<1> QED
  BY <1>1, ClusteringInvariant, PTL

\* Results reach Lychee in the order of their snapshots unless their runs
\* were in flight at once, for any number of runs and workers.
THEOREM OrderKept == CSpec => []AnsweredInOrder
<1>1. ClusteringInv => AnsweredInOrder
  BY DEF ClusteringInv
<1> QED
  BY <1>1, ClusteringInvariant, PTL

\* Nobody is answered twice but after a lost reply, and then with nothing.
THEOREM OneAnswer == CSpec => []AnsweredOnce
<1>1. ClusteringInv => AnsweredOnce
  BY DEF ClusteringInv
<1> QED
  BY <1>1, ClusteringInvariant, PTL

\* An empty result has a reason: nothing was read, a mishap befell the run,
\* or a single face of the snapshot is one that Lychee no longer has.
THEOREM EmptyForAReason == CSpec => []EmptyOnlyIfSpoiled
<1>1. ClusteringInv => EmptyOnlyIfSpoiled
  BY DEF ClusteringInv
<1> QED
  BY <1>1, ClusteringInvariant, PTL
===============================================================================
