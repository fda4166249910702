# TLA+ models of the Lychee AI Vision service

The service of this repository detects faces in photos for Lychee, keeps one
embedding per face, finds similar faces and clusters them. It is a FastAPI
application: HTTP routes accept work and put it into a persistent queue, worker
tasks take it out, and results go back to Lychee as callbacks. The interesting
part is not the image code but everything around it: a queue that several
processes share, workers that are cancelled, processes that die between two
commits, and a second system (Lychee) that has its own idea of which faces
exist.

This directory holds a model of that part, its model-checking instances and
machine-checked proofs about it.

## The system

| Part | Code | State | Operations |
|------|------|-------|------------|
| queue contract | `app/queue/base.py` | - | `enqueue`, `enqueue_if_idle`, `dequeue`, `complete`, `size`, `purge`, `position` |
| database queues | `app/queue/db_queue.py` | table `job_queue` (id, job, status), one `RLock` per process | the same, plus recovery at start |
| Redis queue | `app/queue/redis_queue.py` | list `queue:jobs`, hash `queue:inflight`, counter `queue:counter` | the same, no recovery |
| workers | `app/queue/worker.py` | the place in the loop, the job in hand | fetch, handle, complete, dispatch clustering, be cancelled |
| lifespan | `app/main.py` | which processes run, which are stopping | start, stop, exit |
| detection job | `app/api/routes.py:394-568` | result in hand, faces of the answer, crop files | check, detect, post, persist, report an error |
| clustering job | `app/api/routes.py:576-712` | snapshot, labels, suggestions | read, cluster, search, post, post an empty result |
| embedding store | `app/embeddings/` | row and `is_present` flag per face | `add`, `delete_many`, `sync_batch`, `purge_absent`, searches |
| maintenance routes | `app/api/routes.py:186-244` | - | DELETE `/embeddings`, `/embeddings/sync`, `/embeddings/purge` |
| clusterer | `app/clustering/clusterer.py` | - | `cluster` |
| detector, cropper, matcher | `app/detection/`, `app/matching/` | loaded model | filter and rank faces, crop, match a selfie |
| PostgreSQL connections | `app/embeddings/pgvector_store.py`, `app/queue/db_queue.py` | one connection per process and table, one `RLock` | connect, execute, commit, roll back |
| configuration, schemas, factories, authentication | `app/config.py`, `app/api/`, `*/factory.py` | settings | validation |

How they interact: a route calls `enqueue`; a worker calls `dequeue`, runs the
handler of the job, calls `complete` in a `finally` clause and, after a
detection, `enqueue_if_idle` for a clustering job. Handlers read and write the
store on the event loop, give CPU-bound work to an executor, and POST to
Lychee, which answers a detection with the ids of the faces it has made. Lychee
calls the maintenance routes when it forgets faces. `uvicorn --workers` starts
several processes that share nothing but the queue and the store.

What is hard about it, and what makes each part correct:

* **Queue.** Limits are checked before the insert, in a transaction of their
  own; a starting process recovers rows without knowing whether a sibling is
  working on them. Correct means: one handler per job, no job lost, purges that
  spare running jobs, the limit kept, an idle insertion that really was one.
* **Workers.** A cancellation can hit a worker at any await, also inside
  `finally`, and a thread goes on when nobody awaits it any more. Correct
  means: every accepted job is handled to its end or purged, handled again only
  after a recovery, and a stop ends.
* **Detection.** The idempotency check, Lychee's answer and the rows are apart,
  and rows are committed one by one. Correct means: one set of faces per photo,
  an embedding for each face Lychee has and for no other, no photo for which
  Lychee waits in vain.
* **Store.** In SQLite a face is a row in each of two tables, looked up before
  the transaction that changes it begins; in PostgreSQL every method shares one
  connection, some leave their transaction open, and most do not roll back.
  Correct means: the two tables stay in step, errors and deadlocks are confined
  to who caused them, and a process that starts gets to serve.
* **Recognition.** Boxes stick out of images, fractions of pixels are cut off,
  two libraries read one file differently, two backends measure similarity
  differently. Correct means: the frame and the crop show the face, and a match
  is a match.
* **Store maintenance.** A sync session is several calls with everything else
  in between. Correct means: the purge takes exactly what Lychee did not list.
* **Clustering.** The snapshot is old by the time the result is there, and
  clusterings may overlap. Correct means: results arrive in order, once, and an
  empty result means that there is nothing.

`PROJECT.json` lists the hazards one by one with the properties for each.

## Modules

Every module's header comment says what one action stands for.

* `JobQueue` is the abstract specification: the life of each job as `base.py`
  promises it (new, pending, in flight, done, purged).
* `DbJobQueue` is the table, for SQLite and PostgreSQL. One action is one
  `*_sync` method under the process's lock, except `enqueue`: its COUNT and its
  INSERT are two actions (`EnqueueCheck`, `EnqueueInsert` or `EnqueueRaise`)
  with the lock held in between (`admitted`), because siblings do not share the
  lock. `SkipLocked` is the one difference between the backends that matters.
  `claim` is the job a worker has in hand; `purged`, `redelivered`, `stolen` and
  `solo` are history. `Contract` says that it implements `JobQueue` under the
  mapping `Abs`.
* `QueuePosition` adds the two SELECTs of `position` to it, with the whole queue
  in between. `truths` remembers which answers were right during the call.
* `QueueWorkers` extends `DbJobQueue` with the loop of `run_worker` (`pc` is the await a
  worker is at), the handlers as seen from the queue, cancellation (`Cancelled`
  says what an await turns into), start, stop and crash. `dirty` and `seen`
  record which stored faces a clustering has covered, `escaped` which workers'
  `complete()` raised while their cancellation was on its way.
* `RedisJobQueue` is the Redis queue, one action for each command, the script of
  `enqueue_if_idle` being one. The client sends a command again when its reply
  is lost; that matters for INCR, RPUSH and LPOP. `position` is its two reads.
* `EmbeddingStore` holds the operations of the store, used by `Detection`, the
  handler of a detection job between its awaits with Lychee's side of the
  callbacks and DELETE `/queue`, and `FaceSync`, which adds Lychee's deletions
  and sync sessions. `KeepsFlag` is the difference between the two upserts;
  `since` and `fresh` are the faces stored since batch 0, and those of them that
  had no row. As a specification of
  its own (`StoreSpec`) it is what `SqliteStore` implements.
* `SqliteStore` is the store as two tables, one step for each SELECT outside a
  transaction and one for each transaction, with several processes on the file.
  `seen` is the row id a method remembers from its SELECT. `Implements` maps
  `row` to `photo`.
* `PgConnection` is the one connection a process keeps to `face_embeddings`, or
  the one to `job_queue`: a method is the sequence of table locks its statements
  need (`StoreScript`, `QueueScript`) and of the rows they then lock one by one,
  in any order (`RowsOf`); it ends by a commit, a roll back or neither
  (`LeavesOpen`), and may raise (`aborted`). `Pick` is SKIP LOCKED. PostgreSQL's
  lock modes, its queue of requests and its deadlock detector are modelled from
  its documentation.
* `Recognition` is the way of one image: the detector's filters, normalisation
  and order, the limit and the square crops of a detection job, the search and
  the answer of `/match`. `photo.width` and `photo.height` are those of the image
  that `cv2.imread` gives, turned by the file's EXIF orientation (`photo.exif`);
  the cropper works on the file's own image (`FileWidth`, `FileHeight`). Images
  have two pixels a side or more: of one pixel, rounding might leave a crop
  none. Fractions of pixels are exact (`Grain`, `Unit`); a float that should be
  an integer may be cut to the one below (`Truncated`).
* `Similarity` holds the pure part of clustering (DBSCAN, the search, the
  suggestions) over abstract distances, and `Clustering` the job around it with
  Lychee's answers. `engine` is the backend of the search, a distance and the
  lists of its index: vec0 compares the query with every row, PostgreSQL does
  so or looks through the one list of the IVFFlat index that the query belongs
  to (`Scans`), as it plans. Where several answers are equally good the operators
  return all of them.
* `MC...` modules give constants their values; `...Proofs` modules hold proofs.
* Definitions that stand next to another one and that no action uses
  (`HasRoomOffByOne`, `PopPeeking`, `RaiseSilently`, ...) are wrong variants of
  it; each property is known to fail when the right one is exchanged for one of
  them (`PROJECT.json`, "mutants").

Composition: `QueueWorkers` EXTENDS `DbJobQueue` and takes its actions as they
are; `Detection` keeps of the queue only what `JobQueue` and `QueueWorkers`
establish (an accepted job is handled, a crash returns it, a stop deletes it),
`FaceSync` composes with `Detection`, and `Clustering` sees the store as faces
that come and go. Each refinement carries what is shown on one level to the one
above: `Detection` and `FaceSync` use the store of `EmbeddingStore`, which
`SqliteStore` implements; `DbJobQueue` takes `enqueue_if_idle` as one step,
which `SoloCountsAlone` justifies for PostgreSQL.

## Runs

All of them end within about two minutes with two TLC workers.

| Run | Instance | Shows |
|-----|----------|-------|
| `queue_single` | 1 process, 2 workers, limit 2, 4 ids | the table implements the contract; `position` answers what was true during the call |
| `workers_siblings` | 2 processes with 1 worker, limit 1, 3 ids, SKIP LOCKED, any two of a crash, a stop, a fault and a purge | what is left with siblings: exclusive claims except for stolen jobs, overshoot by one, lone idle insertions; jobs are lost only by a stop, handled again only after a recovery; a worker outlives its stop exactly if its `complete()` raised in it |
| `workers_live` | 2 processes, 2 ids, one crash and one stop, fairness | every job leaves the table; a stop ends |
| `faces` | 2 handlers, 1 photo with 2 faces, 3 faces in all, 2 requests, a dismissal, a session, a mishap, a purge of the queue | rows and crops, answers, stale and missing embeddings, exact purges |
| `redis` | 2 processes, limit 1, 3 ids, 3 mishaps | where a job can be, what Redis knows and `position` says of it, limit and idleness |
| `clustering` | 2 runs, 3 faces on 3 places, two engines, two values of eps, 2 changes, 1 mishap | suggestions, order and number of answers |
| `sqlite_store` | 2 processes, 2 faces, 2 photos, 5 rows | each face has a vector of its own; vectors without a face come from races only; the tables implement the store |
| `pg_connections` | 2 processes, 2 rows, either table, fairness | locks and open transactions, dequeues kept apart, who can be in a deadlock, and that a start ends |
| `recognition` | images of 2 to 5 pixels a side with any one face, of 2 to 4 where the file is turned; up to 3 faces; stores of up to 5 embeddings | what is reported, cropped and matched |

Three runs end in a violation on purpose: each checks a sentence of the
documentation, of a comment or of a test, and TLC's trace shows how the code
does something else. The `findings` in `PROJECT.json` quote the sentences.

| Run | Sentence checked | What the trace shows |
|-----|------------------|----------------------|
| `stop_loses_job` | "Remove a job after it has been processed" | a stop cancels the handler, and `finally` deletes the job |
| `two_workers_skip_clustering` | clustering is dispatched "after the last detection job in the queue completes" | the last detection ends next to a clustering that has already read the store |
| `retry_skips_faces` | "Jobs stuck in 'processing' after a crash must be retried" | the process dies after the first of two rows; the retry finds a face and skips the photo |

More places where the code does something else than a reader may expect need no
run of their own:

* A starting process resets every `processing` row (`db_queue.py:95`, `:291`),
  also those of a sibling that is working on them; "when the service last
  crashed" is true of one process only. `OneHandlerPerJob`,
  `AdmittedWithinLimit` and `PurgeSparesInFlight` are proved for one process and
  false for two; `workers_siblings` has what is left of them, `ExclusiveClaim`,
  `OvershootBound` and `InFlightShielded`.
* Redis recovers nothing: a job whose process died stays in `queue:inflight`
  (`stranded`), `position` answers 0 for it for ever and `enqueue_if_idle` never
  succeeds again. And `position` may answer None for a job that is in some
  method's hand between two commands (`carried` in `NotFoundOnlyIfGone`).
* `position` of the database queues may say 0 of a job that was purged between
  the two reads.
* A `complete()` that raises inside the `finally` of a cancelled handler replaces
  the CancelledError: the loop goes on and the stop waits for ever.
  `LoopsInStopOnlyIfEscaped` says that this always does it and that nothing else
  does, and `workers_live`, where the stop must end, allows no faults.
* DELETE `/queue` tells nobody: Lychee goes on waiting for the photos whose
  detection jobs it deletes (`unheard` in `AnsweredOrUnheard`).
* The two upserts differ in what a purge spares. With that of SQLite a face
  stored again during a session is kept; with that of PostgreSQL only one that
  had no row is, and the others go if Lychee did not list them (`Spared`).
* The detector reads a file with `cv2.imread` (`detector.py:117`), which turns it
  as its EXIF orientation says; the cropper opens it with PIL (`cropper.py:138`),
  which does not. A crop is square and in the image all the same, but it shows
  what lies where the turned image has the face: of a picture of 5 by 3 pixels
  stored on its side, with a face of 2 by 2 in its upper right corner, a
  corner without any pixel of the face. `CropShowsFace` claims the face
  for the plain orientation only. The tests draw their images, so no file of
  theirs has another.
* The IVFFlat index of pgvector is made on an empty table, and a search that uses
  it looks through one of its lists. Faces as alike as one likes are not found if
  they lie in another list (`LeftOutOnlyIfCrowdedOrApart`); the comment at
  `pgvector_store.py:237` says "approx", the documentation of suggestions and
  matching does not.
* Two processes that write one face of a SQLite store at once can leave a vector
  that no method removes any more (`raced`).
* On pgvector a SELECT leaves its transaction open, also the `count()` that every
  process makes at its start (`main.py:123`). The next process to start waits in
  its ALTER TABLE for the sibling; when that writes, the two are in a deadlock,
  and either the start fails or the write does. In the second case the sibling's
  connection stays aborted and every later call on the store raises, until the
  connection breaks or the process ends: `_get_conn` only looks at `closed`.
  `StartEnds` names these waits; it also allows a start to be kept waiting by
  siblings that end and start for ever.
* `delete_many`, `sync_batch`, `purge_absent` and the queue's `purge` lock the
  rows they change in whatever order the server meets them, so two processes
  that serve can deadlock with no start in it. On the store the victim's
  connection then stays aborted as above. `DeadlockOnlyByStartOrBulk` says
  that these and the deadlocks around a start are all there are, and that a
  method which changes one row is in none of the former.
* The vec0 table measures the Euclidean distance. What is found with it is within
  the cosine bound for embeddings of length 1 or more
  (`MatchesAreCosineMatches`), but faces within the bound are missed, all the
  more if embeddings are not normalised.
* A box that sticks out at the left or at the top is moved, not cut, when it is
  normalised, and a face without a pixel in the image is not filtered for blur.

### Bounds

* Two processes and two workers: every property is about pairs (two claims of a
  job, an actor and the sibling that interferes), and the proofs of the queue
  and the workers hold for any number.
* `MaxId` bounds the rows ever inserted, `MaxRequests` those that requests
  insert, so that ids are left for `enqueue_if_idle`. The limit is smaller
  than both, so the queue is full, overshot, purged and filled again.
* Mishaps (crash, stop, fault, lost reply, dismissal, session) have budgets.
  One or two of each are enough for every trace above, and none of the
  properties counts them. In `workers_siblings` the constraint `AnyTwo` picks
  which two, and the view `BarFaces` drops `dirty` and `seen`: no guard reads
  them but their own updates, and the questions about faces are those of
  `two_workers_skip_clustering`.
* `faces` has one photo: no property relates two photos, and handlers meet only
  at one. Three faces let two handlers overlap in one face or in none.
* `clustering` has `MaxPerFace` and `Headroom` 1 (3 and 10 in the code), so that
  a face and one neighbour fill a search; 3 places on a line and eps 0 or 1 give
  faces that are the same, neighbours, or strangers, and chains of neighbours.
  The index of `PgVector` has two lists with neighbours on both sides.
* `sqlite_store` has one method per process at a time, as the code does; five row
  ids are two faces stored again and again with races in between.
* `pg_connections` has two rows, enough for two methods to meet them in opposite
  orders, and two processes: longer cycles are covered by the proofs, for any
  number of processes and rows, and of the progress of three nothing is checked.
  Nothing else is bounded there.
* `faces` has the upsert of SQLite (`KeepsFlag = FALSE`), so that the one of
  PostgreSQL is a wrong variant there; for PostgreSQL, `PurgesAreExact` is proved.
* `recognition` uses images as small as a face: the padded square is as wide as
  the image, wider, or sticks out at one side or at both. Of an orientation the
  cropper notices only whether it swaps width and height, so two of the eight
  are enough.
* `CHECK_DEADLOCK FALSE` stands where the work of one image is done
  (`recognition`), where the ids are used up (`workers_siblings`, `redis`) and
  where all budgets are spent (`faces`, `retry_skips_faces`, `clustering`).

### Fairness

`workers_live` uses weak fairness for each worker's loop without
failures (a detection is finite and every HTTP call has a timeout; the event
loop serves every task), for the statement a request is in the middle of, for
the restart of a process that is down (`restart: unless-stopped` in
`docs/2-how-to/deploy-with-docker.md`) and for the exit of a process whose
workers have left. Nothing is assumed of requests, purges, stops or crashes.
Automatic dispatch is off there, as every dispatched clustering is one more id.

`pg_connections` assumes that the server grants a lock that is free, that a
method runs to its end, and that the server breaks each deadlock
(`deadlock_timeout`). `NoOvertaking` stands for PostgreSQL's queue of lock
requests: a statement that waits for ever waits for one sibling, not for a stream
of them. Nothing is assumed of starts, calls, errors, broken connections or exits.

## Proofs

`tlapm` checks `DbJobQueueProofs` (with `position`), `QueueWorkersProofs`,
`RedisJobQueueProofs`, `SqliteStoreProofs`, `PgConnectionProofs`,
`FaceSyncProofs` (with `Detection`), `ClusteringProofs` and `RecognitionProofs`.
They assume no more than the named ASSUMEs of the modules: sets of processes,
workers and faces are finite, `Home` maps workers to processes, markers are not
jobs, bounds are naturals, distances are symmetric, an image has at least two
pixels a side and a raw face at least one. A theorem that needs more says so in
its ASSUME: `OneProcess` where a property holds of one process only, `NotShort`
where embeddings must not be shorter than 1. Every invariant, every
property of a step and every refinement that a passing run checks is a theorem
here, for all values of the constants.

Each proof rests on an inductive invariant, which the model defines after its
properties (`QueueInv`, `PositionInv`, `EndsInv`, `RedisInv`, `SqliteInv`,
`FaceSyncInv`, `ClusteringInv`, `RecognitionInv`; `PgInv` is in
`PgConnectionProofs`). TLC has found no violation of them on the instances of
the runs; the cfgs name the properties only.

* **Queue.** `QueueInv` is inductive. `TypeOK` alone is not, as an insertion
  overwrites a row unless the counter is ahead of every row; `ExclusiveClaim`
  needs that a claimed row is `processing` (`InFlightShielded`), which needs
  that no purged or claimed id is handed out again (`LedgerInv`). One step per
  action, and under it one per conjunct that the action disturbs. From it follow
  `TypeCorrect`, `ClaimsExclusive`, `InFlightKept`, `SoloAlone`, for any number
  of processes and either backend, and `LedgerKept`.
* **Limit.** `BoundedOvershoot` counts: a process is either admitted or not, and
  the pending rows plus the admitted processes exceed the limit by at most one
  for every process but the first. The lemmas are about cardinalities of sets
  that gain or lose one member. `WithinLimit` is the case of one process.
* **One process.** Under `Cardinality(Procs) = 1` `SoleInv` adds that nothing is
  stolen and that what was admitted still fits; `OneHandler`, `PurgeShields` and
  `ImplementsContract` follow. The refinement maps a row to the life of its job;
  every action maps to one action of `JobQueue` or to a stutter.
* **position().** `PositionInv` follows a call that has read the oldest id of its
  photo: while that row is pending, nothing older is pending without it and its
  rank is one of the answers that were right (`RankInv`); when it is taken, 0
  was. The lemmas identify the rank of the oldest row, a cardinality, with
  what the second SELECT counts, before and after each step of the queue.
  `PositionTrue` needs one process: a starting sibling makes older rows pending
  again. `PositionKeepsContract`: the two reads change nothing.
* **Workers.** `WorkersDriveQueue` shows that each step of the service is a step
  of the queue or leaves it alone, so everything about the queue carries over.
  `NoJobLost` needs `EndsInv` (a completed job was handled, an interrupted one
  was cancelled) with the shape of `WTypeOK`; `CrashesLoseNothing` says that
  without graceful stops nothing is lost, however often processes die.
  `EndsKept` and `StuckOnlyIfEscaped` are about the same places of the loop; for
  the latter the invariant is an equality, kept by every step that enters or
  leaves the loop of a process that stops.
* **Redis queue.** `RedisInv` is inductive. That an id is in one place
  (`OneCopyUnlessResent`) needs that no two places of the list, hands or workers
  share one (`NoDoubles`) and that none is also elsewhere or ended (`Apart`),
  all but for ids whose RPUSH was sent twice, and that fresh ids are in no place
  (`BehindInv`). `LimitIsExceededByOneEach` counts the ids in the list and in the
  hands of `enqueue`; `SoloInv` adds the hands to what the script of
  `enqueue_if_idle` overlooked, since they come to the list later;
  `NoneMeansGoneOrCarried` needs that every id is accounted for (`Accounted`).
* **SQLite store.** `SqliteInv` is inductive: `FacesHaveVectors` needs that the
  row a method remembers is no other face's (`SeenInv`), which needs that row ids
  are not used twice (`RowIdsInv`). `StoreTyped`, `OwnVectors` and `RacedOrphans`
  follow for any number of processes, `NoOrphanAlone` for one; `StoreImplements`
  maps every step to one of `EmbeddingStore` or to a stutter.
* **PostgreSQL connections.** `PgInv` says where a method is in its script and
  which locks it may hold there (`Place`, `Fits`, `Over`, `Resting`).
  `ConnectionTyped` and `SoloCounts` read off it; `DequeuesAreApart` needs that
  a row a `dequeue` goes for is one it has locked. `DeadlocksAreOfTwoKinds` takes a
  cycle: if nobody in it waits for a table lock, each holds a row and waits for
  another, so each is a method of many rows; otherwise the lock modes leave only
  cycles with a start in them.
* **Detection and maintenance.** `FaceSyncInv` joins the invariants of the two.
  `StoredBound` counts the faces a photo has in the store and in hands with those
  its handlers may still get, and needs that a handler has at most a full set of
  its own photo's faces (`MappingInv`). `StaleEmbeddingsWereMissed` needs that a
  face which is forgotten while a handler has it is noted as missed, and
  `PurgesAreExact`, a property of a step, that every flag set in a session stands
  for a face of the snapshot or one that the upsert spares, and that no such face
  which is stored and sent lacks it (`SyncInv`).
* **Clustering.** `ClusteringInv` says what a run holds of its snapshot
  (`SnapshotInv`), who may have been heard (`HeardInv`) and which runs overlap
  (`OverlapInv`). `SuggestionsBeyondEps` and `CrowdedOutOrApart` rest on lemmas about
  the operators of `Similarity`, for any distances and lists: a face within eps of
  another is a core face of its component when `MinSamples` is 1, and a search
  of k faces that leaves out one it has compared has found k that are as close.
* **Recognition.** `RecognitionInv` says that results are reported faces of the
  image and crops theirs; sorting keeps that because ranks are a bijection
  (`RankedIsOfS`). The rest is arithmetic: `ClampedSpanCovers` for boxes,
  `ScaledFits` for what the cropper makes of a box in the file's image, turned or
  not, `SpanFits` and `SpanShows` for one side of a crop with any rounding of
  `Truncated`, and `FoundIsMatch`, which derives the bound on the cosine from the
  one on the distance.

Proofs have changed the models twice. `since` in `FaceSync` used to be what
Lychee had heard of after batch 0; the proof of `PurgesAreExact` failed at a
retried `add` that sets the flag of a row again, and it is now what was stored or
stored again (`Upserted`), told apart by `fresh`. `OnePlaceUnlessResent` used to compare sets of
places, which collapse when two places look alike; places are now tagged and
counted.

Only model-checked is liveness (`EveryJobLeaves`, `StopsWhenTold`, `StartEnds`),
which is out of the prover's reach. So are the three runs that end in a
violation.

## Not modelled

* DeepFace, OpenCV, PIL and scikit-learn: external. Their results appear as raw
  faces, scores, embeddings and distances.
* `size`, `/health`, `/config`, `/embeddings/export`: single reads.
* Formats of payloads, logging, API keys, parsing of the configuration.
* An answer of Lychee's that comes after the client has given up: a callback that
  times out is taken to have been accepted before that, or never. Lychee may in
  fact accept it later, after the error or the empty result that follows it.
* How good an approximate search is: lists are any partition of the embeddings.
* The executor at shutdown (`shutdown(wait=False)`): its threads compute crops and
  embeddings and write neither the queue nor the store.
* Lychee is modelled from how the code calls it and from the client side that
  `docs/3-reference/api.md` describes.

## Plan

1. (done) queue contract, database queues, workers, lifespan; their proofs.
2. (done) store, detection, maintenance routes; Redis queue; clustering.
3. (done) the store by statements (`SqliteStore`, `PgConnection`) with their
   proofs; `position`; the pure parts of detection, cropping and matching.
4. (done) proofs of Redis, detection and sync, clustering, recognition and
   `position`.
5. The safety half of liveness: what a state in which nothing can happen any
   more looks like, for the workers and for the connections.
6. `ClusteredWhenQuiet` for a single worker; the clustering job over
   `EmbeddingStore` instead of its own set of faces.
