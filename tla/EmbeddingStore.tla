---------------------------- MODULE EmbeddingStore ----------------------------
(***************************************************************************)
(* The table behind the EmbeddingStore protocol (app/embeddings/store.py), *)
(* as sqlite_store.py and pgvector_store.py keep it: which faces have a    *)
(* row, for which photo, and the is_present flag of a sync session.  Every *)
(* operation is one transaction under the store's RLock; similarity_search *)
(* and the other reads are used by value where they matter.                *)
(*                                                                         *)
(* Operations only: who calls them, and when, is in Detection and FaceSync.*)
(***************************************************************************)
EXTENDS Naturals, FiniteSets

CONSTANTS
    Faces,      \* Lychee's Face.id
    Photos,     \* Lychee's photo ids
    NoPhoto,    \* "no row"
    KeepsFlag   \* TRUE: the upsert of pgvector_store leaves is_present alone

ASSUME StoreAssumption ==
    /\ IsFiniteSet(Faces)
    /\ NoPhoto \notin Photos
    /\ KeepsFlag \in BOOLEAN

VARIABLES
    row,        \* row[f]: the photo_id of the row of face f
    present     \* faces with a row whose is_present flag is set

store == <<row, present>>

Stored == {f \in Faces : row[f] # NoPhoto}

\* count_by_photo_id counts these.
OfPhoto(p) == {f \in Faces : row[f] = p}

InitStore == row = [f \in Faces |-> NoPhoto] /\ present = {}

AddKeepingFlag(f, p) ==
    /\ row' = [row EXCEPT ![f] = p]
    /\ present' = IF f \in Stored THEN present ELSE present \cup {f}

\* Upsert: sqlite_store deletes and inserts, so that the flag gets its default.
Add(f, p) ==
    /\ row' = [row EXCEPT ![f] = p]
    /\ present' = IF KeepsFlag /\ f \in Stored THEN present ELSE present \cup {f}

Remove(S) ==
    /\ row' = [f \in Faces |-> IF f \in S THEN NoPhoto ELSE row[f]]
    /\ present' = present \ S

DeletePresentOnly(S) == Remove(S \cap present)

\* Ids that are not in the store are skipped.
DeleteMany(S) == Remove(S \cap Stored)

\* Batch 0 resets every flag before it marks.
SyncBatch(S, first) ==
    /\ present' = (IF first THEN {} ELSE present) \cup (S \cap Stored)
    /\ UNCHANGED row

PurgeAbsent == Remove(Stored \ present)

\* The store on its own: any caller, any operation, at any time.
StoreNext ==
    \/ \E f \in Faces, p \in Photos : Add(f, p)
    \/ \E S \in SUBSET Faces : DeleteMany(S) \/ \E first \in BOOLEAN : SyncBatch(S, first)
    \/ PurgeAbsent

StoreSpec == InitStore /\ [][StoreNext]_store

\* Types; a flag belongs to a row.
StoreTypeOK ==
    /\ row \in [Faces -> Photos \cup {NoPhoto}]
    /\ present \subseteq Stored
===============================================================================
