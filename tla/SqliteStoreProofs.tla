--------------------------- MODULE SqliteStoreProofs ---------------------------
(***************************************************************************)
(* What holds of the two tables of sqlite_store.py for any number of       *)
(* processes, faces and rows, and that they are the one table that the     *)
(* callers of the store are promised.                                      *)
(***************************************************************************)
EXTENDS SqliteStore, TLAPS

\* Empty tables and idle processes satisfy the invariant.
LEMMA InitStoreInv == QInit => SqliteInv
  BY SqliteAssumption DEF SqliteAssumption, QInit, SqliteInv, QTypeOK, RowIdsInv, SeenInv,
       FacesHaveVectors, OrphansOnlyFromRaces, Stored, RowIds, NoRow

\* A step that leaves the tables alone and whose methods forget, or look up
\* a row of the face they are about, keeps the invariant.
LEMMA LookingKeepsInv ==
  ASSUME SqliteInv, QTypeOK', UNCHANGED <<tables, raced>>,
         \A p \in Procs :
            \/ pc'[p] \notin {"add", "delete"} \/ seen'[p] = NoRow
            \/ pc'[p] = pc[p] /\ face'[p] = face[p] /\ seen'[p] = seen[p]
            \/ seen'[p] = vecRow[face'[p]]
  PROVE  SqliteInv'
<1> USE DEF SqliteInv, tables
<1>1. RowIdsInv'
  BY DEF RowIdsInv, QTypeOK, RowIds, NoRow
<1>2. SeenInv'
  BY DEF SeenInv, FacesHaveVectors, QTypeOK, Stored, RowIds, NoRow
<1>3. FacesHaveVectors' /\ OrphansOnlyFromRaces'
  BY DEF FacesHaveVectors, OrphansOnlyFromRaces, Stored
<1> QED
  BY <1>1, <1>2, <1>3

\* Erasing faces together with their rows keeps faces and vectors in step.
LEMMA ErasureKeepsInv ==
  ASSUME SqliteInv, QTypeOK', UNCHANGED raced, NEW S \in SUBSET Faces, NEW rs, Erase(S, rs),
         \A f \in S : vecRow[f] \in rs \cup raced \cup {NoRow},
         \A f \in Faces \ S : vecRow[f] \notin rs \/ vecRow[f] = NoRow,
         \A p \in Procs :
            \/ pc'[p] \notin {"add", "delete"}
            \/ pc'[p] = pc[p] /\ face'[p] = face[p] /\ seen'[p] = seen[p],
         \A p \in Procs : seen'[p] \in {seen[p], NoRow}
  PROVE  SqliteInv'
<1> USE DEF SqliteInv, Erase
<1>1. RowIdsInv'
  BY DEF RowIdsInv, QTypeOK, RowIds, NoRow
<1>2. SeenInv'
  BY DEF SeenInv, QTypeOK, RowIds, NoRow
<1>3. FacesHaveVectors'
  BY DEF FacesHaveVectors, QTypeOK, Stored, RowIds, NoRow
<1>4. OrphansOnlyFromRaces'
  BY DEF OrphansOnlyFromRaces, FacesHaveVectors, QTypeOK, Stored, RowIds, NoRow
<1> QED
  BY <1>1, <1>2, <1>3, <1>4

\* Every step keeps the variables in their types.
LEMMA NextStoreType == QTypeOK /\ [QNext]_lvars => QTypeOK'
<1> SUFFICES ASSUME QTypeOK, [QNext]_lvars PROVE QTypeOK'
  OBVIOUS
<1> USE SqliteAssumption DEF SqliteAssumption, QTypeOK, tables, method, Goto, Return, Stored, NoRow
<1>1. ASSUME NEW p \in Procs, Open(p) PROVE QTypeOK'
  BY <1>1 DEF Open
<1>2. ASSUME NEW p \in Procs, Migrate(p) PROVE QTypeOK'
  BY <1>2 DEF Migrate
<1>3. ASSUME NEW p \in Procs, NEW f \in Faces, LookForAdd(p, f) PROVE QTypeOK'
  BY <1>3 DEF LookForAdd
<1>4. ASSUME NEW p \in Procs, NEW f \in Faces, LookForDelete(p, f) PROVE QTypeOK'
  BY <1>4 DEF LookForDelete
<1>5. ASSUME NEW p \in Procs, AddRow(p) PROVE QTypeOK'
  <2>1. /\ face[p] \in Faces /\ nextRow \in RowIds
        /\ vecRow' = [vecRow EXCEPT ![face[p]] = nextRow]
        /\ present' = present \cup {face[p]} /\ column' = column
        /\ vectors' = (vectors \ {seen[p]}) \cup {nextRow}
        /\ nextRow' = nextRow + 1 /\ raced' \subseteq raced \cup {nextRow}
    BY <1>5 DEF AddRow, NewRowId
  <2>2. PICK a \in Photos : photo' = [photo EXCEPT ![face[p]] = a]
    BY <1>5 DEF AddRow
  <2>3. Stored' = Stored \cup {face[p]} /\ present' \subseteq Stored'
    BY <2>1 DEF RowIds
  <2>4. Stored' = {f \in Faces : photo'[f] # NoPhoto}
    BY <2>1, <2>2, <2>3
  <2>5. /\ vecRow' \in [Faces -> RowIds \cup {NoRow}]
        /\ photo' \in [Faces -> Photos \cup {NoPhoto}]
        /\ vectors' \subseteq RowIds /\ raced' \subseteq RowIds
    BY <2>1, <2>2
  <2>0. nextRow' \in 1..(MaxRow + 1)
    BY <2>1 DEF RowIds
  <2>6. /\ pc' = [pc EXCEPT ![p] = "idle"] /\ seen' = [seen EXCEPT ![p] = NoRow]
        /\ rest' = [rest EXCEPT ![p] = {}] /\ face' = face
    BY <1>5 DEF AddRow
  <2> QED
    BY <1>5, <2>0, <2>1, <2>3, <2>4, <2>5, <2>6 DEF AddRow
<1>6. ASSUME NEW p \in Procs, DeleteRows(p) PROVE QTypeOK'
  BY <1>6 DEF DeleteRows, Erase
<1>7. ASSUME NEW p \in Procs, PurgeAbsent(p) PROVE QTypeOK'
  BY <1>7 DEF PurgeAbsent, Erase
<1>8. ASSUME NEW p \in Procs, NEW S \in SUBSET Faces, DeleteCalled(p, S) PROVE QTypeOK'
  BY <1>8 DEF DeleteCalled
<1>9. ASSUME NEW p \in Procs, NEW S \in SUBSET Faces, NEW first \in BOOLEAN,
             SyncBatch(p, S, first)
      PROVE  QTypeOK'
  BY <1>9 DEF SyncBatch, Marked
<1>10. ASSUME NEW p \in Procs, Raise(p) \/ Exit(p) PROVE QTypeOK'
  BY <1>10 DEF Raise, Exit
<1>11. CASE UNCHANGED lvars
  BY <1>11 DEF lvars
<1> HIDE DEF QTypeOK, tables, method, Goto, Return, Stored, NoRow
<1> QED
  BY <1>1, <1>2, <1>3, <1>4, <1>5, <1>6, <1>7, <1>8, <1>9, <1>10, <1>11 DEF QNext, ProcNext

\* Every step preserves the invariant.
LEMMA NextStoreInv == SqliteInv /\ [QNext]_lvars => SqliteInv'
<1> SUFFICES ASSUME SqliteInv, [QNext]_lvars PROVE SqliteInv'
  OBVIOUS
<1>0. QTypeOK /\ QTypeOK'
  BY NextStoreType DEF SqliteInv
<1>1. ASSUME NEW p \in Procs, Open(p) \/ Migrate(p) PROVE SqliteInv'
  BY <1>0, <1>1, LookingKeepsInv DEF Open, Migrate, Goto, QTypeOK
<1>2. ASSUME NEW p \in Procs, NEW f \in Faces, LookForAdd(p, f) PROVE SqliteInv'
  BY <1>0, <1>2, LookingKeepsInv DEF LookForAdd, Goto, QTypeOK
<1>3. ASSUME NEW p \in Procs, NEW f \in Faces, LookForDelete(p, f) PROVE SqliteInv'
  BY <1>0, <1>3, LookingKeepsInv DEF LookForDelete, Goto, QTypeOK
<1>4. ASSUME NEW p \in Procs, NEW S \in SUBSET Faces, DeleteCalled(p, S) PROVE SqliteInv'
  BY <1>0, <1>4, LookingKeepsInv DEF DeleteCalled, Goto, QTypeOK
<1>5. ASSUME NEW p \in Procs, Raise(p) \/ Exit(p) PROVE SqliteInv'
  BY <1>0, <1>5, LookingKeepsInv DEF Raise, Exit, Return, Goto, QTypeOK
<1>6. ASSUME NEW p \in Procs, NEW S \in SUBSET Faces, NEW first \in BOOLEAN,
             SyncBatch(p, S, first)
      PROVE  SqliteInv'
  BY <1>0, <1>6 DEF SyncBatch, method, SqliteInv, RowIdsInv, SeenInv, FacesHaveVectors,
       OrphansOnlyFromRaces, Stored
<1>7. ASSUME NEW p \in Procs, DeleteRows(p) PROVE SqliteInv'
  <2> DEFINE S == {face[p]} \cup rest[p]
             rs == {seen[p]} \cup {vecRow[f] : f \in rest[p]}
  <2>1. /\ Erase(S, rs) /\ S \in SUBSET Faces /\ UNCHANGED raced
        /\ pc[p] = "delete" /\ seen[p] # NoRow
    BY <1>0, <1>7 DEF DeleteRows, QTypeOK
  <2>2. \A f \in S : vecRow[f] \in rs \cup raced \cup {NoRow}
    BY <1>0, <2>1 DEF SqliteInv, SeenInv
  <2>3. \A f \in Faces \ S : vecRow[f] \notin rs \/ vecRow[f] = NoRow
    BY <1>0, <2>1 DEF SqliteInv, SeenInv, FacesHaveVectors, Stored
  <2>4. \A q \in Procs :
          /\ \/ pc'[q] \notin {"add", "delete"}
             \/ pc'[q] = pc[q] /\ face'[q] = face[q] /\ seen'[q] = seen[q]
          /\ seen'[q] \in {seen[q], NoRow}
    BY <1>0, <1>7 DEF DeleteRows, Return, Goto, QTypeOK
  <2> QED
    BY <1>0, <2>1, <2>2, <2>3, <2>4, ErasureKeepsInv
<1>8. ASSUME NEW p \in Procs, PurgeAbsent(p) PROVE SqliteInv'
  <2> DEFINE S == Stored \ present
             rs == {vecRow[f] : f \in S}
  <2>1. Erase(S, rs) /\ S \in SUBSET Faces /\ UNCHANGED <<method, raced>>
    BY <1>8 DEF PurgeAbsent, Stored
  <2>2. \A f \in Faces \ S : vecRow[f] \notin rs \/ vecRow[f] = NoRow
    BY DEF SqliteInv, FacesHaveVectors, Stored
  <2> QED
    BY <1>0, <2>1, <2>2, ErasureKeepsInv DEF method
<1>9. ASSUME NEW p \in Procs, AddRow(p) PROVE SqliteInv'
  <2> DEFINE f == face[p]
  <2>1. /\ f \in Faces /\ nextRow \in RowIds /\ pc[p] = "add"
        /\ vecRow' = [vecRow EXCEPT ![f] = nextRow]
        /\ vectors' = (vectors \ {seen[p]}) \cup {nextRow}
        /\ nextRow' = nextRow + 1
        /\ seen[p] = NoRow => vecRow[f] = NoRow
        /\ pc'[p] = "idle" /\ seen'[p] = NoRow
        /\ \A q \in Procs \ {p} : pc'[q] = pc[q] /\ face'[q] = face[q] /\ seen'[q] = seen[q]
        /\ raced \subseteq raced'
        /\ OldRowWanted(p, f) => nextRow \in raced'
        /\ raced' \subseteq raced \cup {nextRow}
    BY <1>0, <1>9 DEF AddRow, NewRowId, KeyAllows, Return, Goto, QTypeOK, Stored
  <2>2. \A g \in Faces : vecRow'[g] = IF g = f THEN nextRow ELSE vecRow[g]
    BY <1>0, <2>1 DEF QTypeOK
  <2>3. /\ \A r \in vectors \cup raced : r < nextRow
        /\ \A g \in Faces : vecRow[g] < nextRow
        /\ \A q \in Procs : seen[q] < nextRow
    BY DEF SqliteInv, RowIdsInv
  <2>4. RowIdsInv'
    BY <1>0, <2>1, <2>2, <2>3 DEF RowIdsInv, QTypeOK, RowIds, NoRow
  <2>5. SeenInv'
    <3> SUFFICES ASSUME NEW q \in Procs \ {p}, pc[q] \in {"add", "delete"}, seen[q] # NoRow
                 PROVE  /\ \A g \in Faces : vecRow'[g] = seen[q] => g = face[q]
                        /\ vecRow'[face[q]] \in {NoRow, seen[q]} \cup raced'
      BY <2>1 DEF SeenInv
    <3>1. face[q] = f => nextRow \in raced'
      BY <2>1 DEF OldRowWanted
    <3> QED
      BY <1>0, <2>1, <2>2, <2>3, <3>1 DEF SqliteInv, SeenInv, QTypeOK, RowIds, NoRow
  <2>6. FacesHaveVectors'
    <3>1. \A g \in Faces \ {f} : vecRow[g] # NoRow => vecRow[g] # seen[p]
      BY <2>1 DEF SqliteInv, SeenInv
    <3> QED
      BY <1>0, <2>1, <2>2, <2>3, <3>1 DEF SqliteInv, FacesHaveVectors, Stored, QTypeOK, RowIds, NoRow
  <2>7. OrphansOnlyFromRaces'
    <3>1. vecRow[f] \in {NoRow, seen[p]} \cup raced
      BY <2>1 DEF SqliteInv, SeenInv
    <3> QED
      BY <1>0, <2>1, <2>2, <3>1 DEF SqliteInv, OrphansOnlyFromRaces, Stored, QTypeOK, RowIds, NoRow
  <2> QED
    BY <1>0, <2>4, <2>5, <2>6, <2>7 DEF SqliteInv
<1>10. CASE UNCHANGED lvars
  BY <1>10 DEF lvars, tables, method, SqliteInv, QTypeOK, RowIdsInv, SeenInv, FacesHaveVectors,
       OrphansOnlyFromRaces, Stored
<1> QED
  BY <1>1, <1>2, <1>3, <1>4, <1>5, <1>6, <1>7, <1>8, <1>9, <1>10 DEF QNext, ProcNext

\* The invariant holds in every reachable state.
THEOREM StoreInvariant == QSpec => []SqliteInv
  BY InitStoreInv, NextStoreInv, PTL DEF QSpec

\* The store is typed, and a process that serves finds the column is_present.
THEOREM StoreTyped == QSpec => []QTypeOK
  BY StoreInvariant, PTL DEF SqliteInv

\* Every face in face_meta has a vector of its own in vec_faces.
THEOREM OwnVectors == QSpec => []FacesHaveVectors
  BY StoreInvariant, PTL DEF SqliteInv

\* A vector without a face was inserted in a race of two processes.
THEOREM RacedOrphans == QSpec => []OrphansOnlyFromRaces
  BY StoreInvariant, PTL DEF SqliteInv

\* With one process no two methods overlap (the RLock).
OneProcess == \A p, q \in Procs : p = q
NoRace     == raced = {}
NoOrphan   == vectors = {vecRow[f] : f \in Stored}

\* With one process no vector is ever left without a face.
THEOREM NoOrphanAlone == ASSUME OneProcess PROVE QSpec => []NoOrphan
<1>1. QInit => NoRace
  BY DEF QInit, NoRace
<1>2. NoRace /\ [QNext]_lvars => NoRace'
  <2> SUFFICES ASSUME NoRace, [QNext]_lvars PROVE NoRace'
    OBVIOUS
  <2>1. ASSUME NEW p \in Procs, AddRow(p) PROVE NoRace'
    BY <2>1 DEF AddRow, OldRowWanted, OneProcess, NoRace
  <2> QED
    BY <2>1 DEF QNext, ProcNext, lvars, Open, Migrate, LookForAdd, LookForDelete, DeleteRows,
         PurgeAbsent, DeleteCalled, SyncBatch, Raise, Exit, NoRace
<1>3. SqliteInv /\ NoRace => NoOrphan
  BY DEF SqliteInv, OrphansOnlyFromRaces, FacesHaveVectors, NoRace, NoOrphan
<1> QED
  BY <1>1, <1>2, <1>3, StoreInvariant, PTL DEF QSpec

-------------------------------------------------------------------------------
(* The promise of store.py                                                   *)

\* Every step is an operation of EmbeddingStore, or nothing to its callers.
LEMMA StepIsOperation ==
  ASSUME SqliteInv, [QNext]_lvars
  PROVE  ES!StoreNext \/ UNCHANGED <<photo, present>>
<1>0. QTypeOK /\ ES!Stored = Stored
  BY DEF SqliteInv, QTypeOK, ES!Stored
<1>1. ASSUME NEW p \in Procs, AddRow(p) PROVE ES!StoreNext
  <2>1. PICK a \in Photos : photo' = [photo EXCEPT ![face[p]] = a]
    BY <1>1 DEF AddRow
  <2>2. face[p] \in Faces /\ present' = present \cup {face[p]}
    BY <1>0, <1>1 DEF AddRow, QTypeOK
  <2> QED
    BY <2>1, <2>2 DEF ES!StoreNext, ES!Add
<1>2. ASSUME NEW S \in SUBSET Faces, NEW rs, Erase(S, rs) PROVE ES!DeleteMany(S)
  <2>1. \A f \in Faces \ Stored : photo[f] = NoPhoto
    BY <1>0 DEF ES!Stored
  <2> QED
    BY <1>0, <1>2, <2>1 DEF Erase, ES!DeleteMany, ES!Remove, QTypeOK
<1>3. ASSUME NEW p \in Procs, DeleteRows(p) PROVE ES!StoreNext
  <2>1. {face[p]} \cup rest[p] \in SUBSET Faces
    BY <1>0 DEF QTypeOK
  <2>2. ES!DeleteMany({face[p]} \cup rest[p])
    BY <1>2, <1>3, <2>1 DEF DeleteRows
  <2> QED
    BY <2>1, <2>2 DEF ES!StoreNext
<1>4. ASSUME NEW p \in Procs, PurgeAbsent(p) PROVE ES!StoreNext
  BY <1>0, <1>4 DEF PurgeAbsent, Erase, ES!StoreNext, ES!PurgeAbsent, ES!Remove
<1>5. ASSUME NEW p \in Procs, NEW S \in SUBSET Faces, NEW first \in BOOLEAN,
             SyncBatch(p, S, first)
      PROVE  ES!StoreNext
  BY <1>0, <1>5 DEF SyncBatch, Marked, ES!StoreNext, ES!SyncBatch
<1> QED
  BY <1>1, <1>3, <1>4, <1>5 DEF QNext, ProcNext, lvars, tables, Open, Migrate, LookForAdd,
       LookForDelete, DeleteCalled, Raise, Exit

\* The two tables and their races implement the one table of EmbeddingStore.
THEOREM StoreImplements == QSpec => Implements
<1>1. QInit => ES!InitStore
  BY DEF QInit, ES!InitStore
<1>2. SqliteInv /\ [QNext]_lvars => [ES!StoreNext]_(<<photo, present>>)
  BY StepIsOperation
<1>3. QSpec => ES!InitStore /\ [][ES!StoreNext]_(<<photo, present>>)
  BY <1>1, <1>2, StoreInvariant, PTL DEF QSpec
<1> QED
  BY <1>3, PTL DEF Implements, ES!StoreSpec, ES!store
===============================================================================
