------------------------------ MODULE SqliteStore ------------------------------
(***************************************************************************)
(* sqlite_store.py: the two tables that hold the embeddings of the faces,  *)
(* face_meta and the vectors of vec_faces, and the processes that share    *)
(* their file.                                                             *)
(*                                                                         *)
(* Within a process the RLock lets one method run at a time.  Between      *)
(* processes there is only SQLite: a SELECT outside a transaction is a     *)
(* step of its own, and sqlite3 opens the transaction at the first INSERT, *)
(* UPDATE or DELETE, which locks the file until the commit.  So add and    *)
(* delete_many look up a row in one step and write in a later one;         *)
(* sync_batch and purge_absent, which begin with a write, are one step.    *)
(* Row ids of vec_faces are never used twice (AUTOINCREMENT in sqlite-vec).*)
(***************************************************************************)
EXTENDS Naturals, FiniteSets

CONSTANTS
    Procs,      \* service processes
    Faces,      \* Lychee's Face.id
    Photos,     \* Lychee's photo ids
    NoPhoto,    \* "no row"
    MaxRow      \* bound: rows ever inserted into vec_faces

NoRow == 0
RowIds == 1..MaxRow

ASSUME SqliteAssumption ==
    IsFiniteSet(Faces) /\ NoPhoto \notin Photos /\ MaxRow \in Nat

VARIABLES
    vecRow,     \* vecRow[f]: vec_rowid in the face_meta row of f, or NoRow
    photo,      \* photo[f]: its photo_id, or NoPhoto
    present,    \* faces whose row has is_present = 1
    vectors,    \* the row ids of vec_faces
    nextRow,    \* the next of them
    column,     \* face_meta has the column is_present
    pc,         \* pc[p]: where process p is
    face,       \* face[p]: the face its add or delete_many is about to write
    seen,       \* seen[p]: the row id that its SELECT found for that face
    rest,       \* rest[p]: faces its delete_many has yet to look up
    raced       \* row ids inserted over a row that a sibling, having looked
                \*   it up before, was about to delete (history)

tables  == <<vecRow, photo, present, vectors, nextRow>>
method  == <<pc, face, seen, rest>>
lvars  == <<tables, column, method, raced>>

Stored == {f \in Faces : vecRow[f] # NoRow}

QInit ==
    /\ vecRow = [f \in Faces |-> NoRow]
    /\ photo = [f \in Faces |-> NoPhoto]
    /\ present = {} /\ vectors = {} /\ nextRow = 1
    /\ column \in BOOLEAN
    /\ pc = [p \in Procs |-> "down"]
    /\ face \in [Procs -> Faces]
    /\ seen = [p \in Procs |-> NoRow]
    /\ rest = [p \in Procs |-> {}]
    /\ raced = {}

Goto(p, l) == pc' = [pc EXCEPT ![p] = l]

\* A method of p ends, or p does.
Return(p, l) ==
    /\ Goto(p, l)
    /\ seen' = [seen EXCEPT ![p] = NoRow]
    /\ rest' = [rest EXCEPT ![p] = {}]
    /\ UNCHANGED face

-------------------------------------------------------------------------------
(* _init_db *)

OpenUnmigrated(p) ==
    /\ pc[p] = "down"
    /\ Goto(p, "idle")
    /\ UNCHANGED <<tables, column, face, seen, rest, raced>>

\* CREATE ... IF NOT EXISTS, and the SELECT of the columns.
Open(p) ==
    /\ pc[p] = "down"
    /\ Goto(p, IF column THEN "idle" ELSE "migrate")
    /\ UNCHANGED <<tables, column, face, seen, rest, raced>>

\* ALTER TABLE; if a sibling was faster, "duplicate column name" ends the
\* process.
Migrate(p) ==
    /\ pc[p] = "migrate"
    /\ Goto(p, IF column THEN "down" ELSE "idle")
    /\ column' = TRUE
    /\ UNCHANGED <<tables, face, seen, rest, raced>>

-------------------------------------------------------------------------------
(* add *)

\* The SELECT of _delete_internal.
LookForAdd(p, f) ==
    /\ pc[p] = "idle"
    /\ Goto(p, "add")
    /\ face' = [face EXCEPT ![p] = f]
    /\ seen' = [seen EXCEPT ![p] = vecRow[f]]
    /\ UNCHANGED <<tables, column, rest, raced>>

\* INTEGER PRIMARY KEY without AUTOINCREMENT: the highest id is free again.
RowIdReused == 1 + Cardinality(vectors)

NewRowId == nextRow

\* A sibling is about to delete the row of f that it looked up.
OldRowWanted(p, f) ==
    \E q \in Procs \ {p} : pc[q] \in {"add", "delete"} /\ face[q] = f /\ seen[q] # NoRow

AnyKeyAllows(p) == TRUE

\* The primary key of face_meta refuses a row where the SELECT found none and
\* a sibling has inserted one since.
KeyAllows(p) == seen[p] # NoRow \/ face[p] \notin Stored

\* The row that was seen goes, by its id from vec_faces and by its face from
\* face_meta, and the new one is inserted in both.
AddRow(p) ==
    /\ pc[p] = "add"
    /\ NewRowId \in RowIds
    /\ KeyAllows(p)
    /\ \E a \in Photos : photo' = [photo EXCEPT ![face[p]] = a]
    /\ vecRow' = [vecRow EXCEPT ![face[p]] = NewRowId]
    /\ present' = present \cup {face[p]}
    /\ vectors' = (vectors \ {seen[p]}) \cup {NewRowId}
    /\ nextRow' = NewRowId + 1
    /\ raced' = raced \cup (IF OldRowWanted(p, face[p]) THEN {NewRowId} ELSE {})
    /\ Return(p, "idle")
    /\ UNCHANGED column

-------------------------------------------------------------------------------
(* delete, delete_many *)

DeleteCalled(p, S) ==
    /\ pc[p] = "idle" /\ S # {}
    /\ Goto(p, "look")
    /\ rest' = [rest EXCEPT ![p] = S]
    /\ UNCHANGED <<tables, column, face, seen, raced>>

\* The SELECT for the next face.
LookForDelete(p, f) ==
    /\ pc[p] = "look" /\ f \in rest[p]
    /\ rest' = [rest EXCEPT ![p] = @ \ {f}]
    /\ \/ /\ f \in Stored
          /\ Goto(p, "delete")
          /\ face' = [face EXCEPT ![p] = f]
          /\ seen' = [seen EXCEPT ![p] = vecRow[f]]
       \/ /\ f \notin Stored
          /\ Goto(p, IF rest'[p] = {} THEN "idle" ELSE "look")
          /\ UNCHANGED <<face, seen>>
    /\ UNCHANGED <<tables, column, raced>>

\* The faces of S go from face_meta and the rows in rs from vec_faces.
Erase(S, rs) ==
    /\ vecRow' = [f \in Faces |-> IF f \in S THEN NoRow ELSE vecRow[f]]
    /\ photo' = [f \in Faces |-> IF f \in S THEN NoPhoto ELSE photo[f]]
    /\ present' = present \ S
    /\ vectors' = vectors \ rs
    /\ UNCHANGED nextRow

\* The first DELETE opens the transaction; the other faces are looked up
\* inside it.
DeleteRows(p) ==
    /\ pc[p] = "delete"
    /\ Erase({face[p]} \cup rest[p], {seen[p]} \cup {vecRow[f] : f \in rest[p]})
    /\ Return(p, "idle")
    /\ UNCHANGED <<column, raced>>

-------------------------------------------------------------------------------
(* sync_batch, purge_absent; what goes wrong *)

MarkedBlindly(S) == S

\* UPDATE ... WHERE lychee_face_id IN, chunk by chunk.
Marked(S) == S \cap Stored

SyncBatch(p, S, first) ==
    /\ pc[p] = "idle"
    /\ present' = (IF first THEN {} ELSE present) \cup Marked(S)
    /\ UNCHANGED <<vecRow, photo, vectors, nextRow, column, method, raced>>

PurgeAbsent(p) ==
    /\ pc[p] = "idle"
    /\ Erase(Stored \ present, {vecRow[f] : f \in Stored \ present})
    /\ UNCHANGED <<column, method, raced>>

\* A statement raises: a duplicate key, or the file stays locked too long.
\* The connection is closed and its transaction rolled back.
Raise(p) ==
    /\ pc[p] \in {"add", "look", "delete"}
    /\ Return(p, "idle")
    /\ UNCHANGED <<tables, column, raced>>

Exit(p) ==
    /\ pc[p] # "down"
    /\ Return(p, "down")
    /\ UNCHANGED <<tables, column, raced>>

-------------------------------------------------------------------------------

ProcNext(p) ==
    \/ Open(p) \/ Migrate(p)
    \/ \E f \in Faces : LookForAdd(p, f) \/ LookForDelete(p, f)
    \/ AddRow(p) \/ DeleteRows(p) \/ PurgeAbsent(p)
    \/ \E S \in SUBSET Faces :
          DeleteCalled(p, S) \/ \E first \in BOOLEAN : SyncBatch(p, S, first)
    \/ Raise(p) \/ Exit(p)

QNext == \E p \in Procs : ProcNext(p)

QSpec == QInit /\ [][QNext]_lvars

-------------------------------------------------------------------------------
(* Properties *)

\* Types; what a method has looked up; a process that serves finds the
\* column is_present, whoever has added it.
QTypeOK ==
    /\ vecRow \in [Faces -> RowIds \cup {NoRow}]
    /\ photo \in [Faces -> Photos \cup {NoPhoto}]
    /\ present \subseteq Stored
    /\ vectors \subseteq RowIds /\ nextRow \in 1..(MaxRow + 1) /\ column \in BOOLEAN
    /\ pc \in [Procs -> {"down", "migrate", "idle", "add", "look", "delete"}]
    /\ face \in [Procs -> Faces]
    /\ seen \in [Procs -> RowIds \cup {NoRow}]
    /\ rest \in [Procs -> SUBSET Faces]
    /\ raced \subseteq RowIds
    /\ Stored = {f \in Faces : photo[f] # NoPhoto}
    /\ \A p \in Procs :
          /\ pc[p] \notin {"down", "migrate"} => column
          /\ pc[p] = "delete" => seen[p] # NoRow
          /\ pc[p] \notin {"add", "delete"} => seen[p] = NoRow

\* "face_meta (regular table) - stores lychee_face_id -> vec_rowid mapping"
\* (sqlite_store.py): every face in face_meta has a vector, and one of its
\* own, so get_all and count agree and no search answers with a face's
\* neighbour; whatever siblings delete or insert between the SELECT and the
\* DELETE of a method.
FacesHaveVectors ==
    \A f \in Stored :
        /\ vecRow[f] \in vectors
        /\ \A g \in Stored : vecRow[f] = vecRow[g] => f = g

\* A vector without a face takes a place among the neighbours of every
\* search and no method deletes it any more.  There is none unless two
\* processes wrote one face at once, the second over a row it never saw.
OrphansOnlyFromRaces == vectors \ {vecRow[f] : f \in Stored} \subseteq raced

-------------------------------------------------------------------------------
(* What the properties rest on *)

\* Row ids are not used twice, neither are those a method remembers.
RowIdsInv ==
    /\ \A r \in vectors \cup raced : r < nextRow
    /\ \A f \in Faces : vecRow[f] < nextRow
    /\ \A p \in Procs : seen[p] < nextRow

\* The row a method is about to delete is no other face's, and if its face
\* has got another row meanwhile, that one was inserted in a race.
SeenInv ==
    \A p \in Procs : pc[p] \in {"add", "delete"} /\ seen[p] # NoRow =>
        /\ \A f \in Faces : vecRow[f] = seen[p] => f = face[p]
        /\ vecRow[face[p]] \in {NoRow, seen[p]} \cup raced

SqliteInv ==
    QTypeOK /\ RowIdsInv /\ SeenInv /\ FacesHaveVectors /\ OrphansOnlyFromRaces

-------------------------------------------------------------------------------
(* What the callers see *)

ES == INSTANCE EmbeddingStore WITH row <- photo, KeepsFlag <- FALSE

\* "Embedding storage" (store.py): for its callers each method is one step on
\* one table, in whatever processes they are; one that raises does nothing.
Implements == ES!StoreSpec
===============================================================================
