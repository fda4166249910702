-------------------------------- MODULE FaceSync --------------------------------
(***************************************************************************)
(* How Lychee keeps the embedding store in step with its faces, next to    *)
(* the detections of module Detection: DELETE /embeddings for the faces it *)
(* has forgotten, and the sessions of DELETE /embeddings/sync and /purge   *)
(* (app/api/routes.py; docs/3-reference/api.md describes the client side). *)
(*                                                                         *)
(* A route runs on the event loop without an await around its store call.  *)
(* Lychee runs one session at a time, as feature F-001 assumes (Q-003); it *)
(* may give a session up at any point and start another one with batch 0.  *)
(***************************************************************************)
EXTENDS Detection

VARIABLES
    forgotten,  \* faces whose DELETE Lychee has yet to send
    session,    \* "none", "open" before batch 0, "marking" after it
    snapshot,   \* the faces Lychee had when it opened the session
    unsent,     \* those it has not sent yet
    \* History, read by no action:
    missed,     \* faces whose DELETE was lost, or came before a handler
                \*   that had them in hand was done
    swept,      \* faces that a purge deleted while Lychee had them
    since,      \* faces stored, or stored again, after batch 0 of the session
    fresh       \* those of them that had no row then

sync  == <<forgotten, session, snapshot, unsent>>
shist == <<missed, swept, since, fresh>>
svars == <<dvars, sync, shist>>

SInit ==
    /\ DInit
    /\ forgotten = {} /\ session = "none" /\ snapshot = {} /\ unsent = {}
    /\ missed = {} /\ swept = {} /\ since = {} /\ fresh = {}

\* Requests leave the workers alone.
Served == Free /\ UNCHANGED <<jobs, handler, crops, lychee, dhist>>

-------------------------------------------------------------------------------

\* Lychee forgets a face: it is dismissed, or its photo deleted.
Dismiss(f) ==
    /\ f \in known
    /\ Spend("dismiss")
    /\ known' = known \ {f}
    /\ forgotten' = forgotten \cup {f}
    /\ UNCHANGED <<store, jobs, handler, crops, photoOf, asked, dhist,
                   session, snapshot, unsent, shist>>

\* DELETE /embeddings.
DeleteEmbeddings ==
    /\ Served
    /\ forgotten # {}
    /\ DeleteMany(forgotten)
    /\ missed' = missed \cup (forgotten \ Stored)
                        \cup (forgotten \cap InHand)
    /\ forgotten' = {}
    /\ UNCHANGED <<left, session, snapshot, unsent, swept, since, fresh>>

\* The request never arrives.
LoseDelete ==
    /\ forgotten # {}
    /\ Spend("mishap")
    /\ missed' = missed \cup forgotten
    /\ forgotten' = {}
    /\ UNCHANGED <<store, jobs, handler, crops, lychee, dhist,
                   session, snapshot, unsent, swept, since, fresh>>

Open ==
    /\ session = "none"
    /\ Spend("session")
    /\ session' = "open"
    /\ snapshot' = known
    /\ unsent' = known
    /\ UNCHANGED <<store, jobs, handler, crops, lychee, dhist, forgotten, shist>>

\* DELETE /embeddings/sync with batch = 0 and the first slice, maybe empty;
\* Lychee may send it again when the answer is lost.
SyncFirst(S) ==
    /\ Served
    /\ session \in {"open", "marking"} /\ unsent = snapshot
    /\ SyncBatch(S, TRUE)
    /\ session' = "marking"
    /\ unsent' \in {unsent, unsent \ S}
    /\ since' = {} /\ fresh' = {}
    /\ UNCHANGED <<left, forgotten, snapshot, missed, swept>>

\* The same with batch > 0.
SyncMore(S) ==
    /\ Served
    /\ session = "marking"
    /\ SyncBatch(S, FALSE)
    /\ unsent' \in {unsent, unsent \ S}
    /\ UNCHANGED <<left, forgotten, session, snapshot, missed, swept, since, fresh>>

\* DELETE /embeddings/purge, once every slice has been sent.
PurgeEmbeddings ==
    /\ Served
    /\ session = "marking" /\ unsent = {}
    /\ PurgeAbsent
    /\ swept' = swept \cup ((Stored \ present) \cap known)
    /\ session' = "none" /\ snapshot' = {} /\ since' = {} /\ fresh' = {}
    /\ UNCHANGED <<left, forgotten, unsent, missed>>

\* Lychee gives the session up.
Abort ==
    /\ session # "none"
    /\ session' = "none" /\ snapshot' = {} /\ unsent' = {}
    /\ since' = {} /\ fresh' = {}
    /\ UNCHANGED <<dvars, forgotten, missed, swept>>

\* The faces for which a handler calls store.add in this step.
Upserted ==
    UNION {mapping[w] \ mapping'[w] :
             w \in {v \in Workers : pc[v] = "add" /\ pc'[v] \in {"persist", "done"}}}

\* A step of module Detection; what it stores is noted.
Detect ==
    /\ DNext
    /\ IF session = "marking"
         THEN since' = since \cup Upserted /\ fresh' = fresh \cup (Upserted \ Stored)
         ELSE since' = {} /\ fresh' = {}
    /\ UNCHANGED <<sync, missed, swept>>

SyncStep ==
    \/ \E f \in Faces : Dismiss(f)
    \/ DeleteEmbeddings \/ LoseDelete
    \/ Open \/ PurgeEmbeddings \/ Abort
    \/ \E S \in SUBSET unsent : SyncFirst(S)
    \/ \E S \in SUBSET unsent \ {{}} : SyncMore(S)

SNext == Detect \/ SyncStep

SSpec == SInit /\ [][SNext]_svars

-------------------------------------------------------------------------------
(* Properties *)

\* Types; only faces that exist are forgotten or sent.
STypeOK ==
    /\ DTypeOK
    /\ forgotten \subseteq Faces \ known
    /\ session \in {"none", "open", "marking"}
    /\ snapshot \subseteq Faces /\ unsent \subseteq snapshot
    /\ missed \subseteq Faces /\ swept \subseteq Faces
    /\ fresh \subseteq since /\ since \subseteq Faces
    /\ session = "none" => unsent = {}

\* "Called by Lychee when dismissed faces are permanently removed" (routes.py,
\* delete_embeddings): an embedding outlives its face only until the DELETE
\* arrives, or if that was lost or came before a handler stored it.
StaleOnlyIfMissed ==
    \A f \in Stored \ known : f \in forgotten \cup missed

\* "The service persists each embedding under the stable lychee_face_id"
\* (docs/1-concepts): a face of Lychee's has its embedding, or a handler is
\* about to store it, or that handler failed or died, or a purge swept the
\* embedding because Lychee made the face after the session's snapshot.
MissingOnlyIfInterrupted ==
    \A f \in known :
        f \in Stored \cup InHand \cup abandoned \cup orphaned \cup swept

\* What a purge owes to detections that run next to the session: the upsert
\* of sqlite_store sets the flag of every face it stores, that of
\* pgvector_store only the flag of a new row.
Spared == IF KeepsFlag THEN fresh ELSE since

\* "Send the surviving IDs ... delete everything still marked absent"
\* (docs/3-reference/api.md): whatever detections, deletions, restarts and
\* repeated batches come in between, a purge leaves exactly the stored faces
\* that Lychee listed and those that were stored after batch 0: with the
\* upsert of sqlite_store all of these, with that of pgvector_store those
\* that had no row before.
PurgeIsExact ==
    [][PurgeEmbeddings =>
         {f \in Faces : row'[f] # NoPhoto} = Stored \cap (snapshot \cup Spared)]_svars

\* "Jobs stuck in 'processing' after a crash must be retried on restart"
\* (tests/test_queue.py): once every job is done, the faces that handlers
\* had in hand when the process died have their embeddings.
RetryPersists ==
    (\A p \in Photos : jobs[p] = 0) /\ (\A w \in Workers : pc[w] = "idle")
      => orphaned \cap known \subseteq Stored

-------------------------------------------------------------------------------
(* What the properties rest on *)

\* Only a face that Lychee made is forgotten; one that was forgotten while a
\* handler had it in hand still counts as missed when it gets its row; a flag
\* says that Lychee listed the face or that it was stored since, and no face
\* that it has listed or stored since is without one.
SyncInv ==
    /\ forgotten \cap Unmade = {}
    /\ InHand \ known \subseteq forgotten \cup missed
    /\ session = "marking" =>
          /\ ((snapshot \ unsent) \cup Spared) \cap Stored \subseteq present
          /\ present \subseteq snapshot \cup Spared

FaceSyncInv ==
    DetectionInv /\ STypeOK /\ SyncInv /\ StaleOnlyIfMissed /\ MissingOnlyIfInterrupted
===============================================================================
