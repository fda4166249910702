------------------------ MODULE PgConnectionProofs ------------------------
(***************************************************************************)
(* What PgConnection says of locks and deadlocks, for any number of        *)
(* processes and rows.  The inductive invariant is PTypeOK with, for every *)
(* process, what it may hold at each statement of each method, and which   *)
(* rows it may have locked and still want.                                 *)
(***************************************************************************)
EXTENDS PgConnection, FiniteSetTheorems, SequenceTheorems, TLAPS

OpenRead == {"AccessShare"}
Serving == {"AccessShare", "RowShare", "RowExclusive"}

\* The statements that scripts, and what is left of them, consist of.
StoreStart2 == <<"Share", "AccessExclusive">>
Alter1 == <<"AccessExclusive">>
QueueStart2 == <<"Share", "RowExclusive">>
Enqueue2 == <<"AccessShare", "RowExclusive">>
Dequeue2 == <<"RowShare", "RowExclusive">>
Solo3 == <<"Exclusive", "AccessShare", "RowExclusive">>
Change1 == <<"RowExclusive">>
Read1 == <<"AccessShare">>

Resting(p) ==
    \/ method[p] = "down" /\ held[p] = {}
    \/ method[p] = "idle" /\ held[p] \subseteq OpenRead

\* A start holds nothing at first, and a Share lock afterwards.
StartFits(p, first, second) ==
    /\ method[p] = "start"
    /\ \/ todo[p] = first /\ held[p] = {}
       \/ todo[p] = second /\ "Share" \in held[p]

\* Before its last statement a method of the store holds at most an old
\* SELECT's lock.
StoreFits(p) ==
    \/ StartFits(p, StoreStart2, Alter1)
    \/ method[p] \in {"read", "count"} /\ todo[p] = Read1 /\ held[p] \subseteq OpenRead
    \/ method[p] \in {"change", "bulk"} /\ todo[p] = Change1 /\ held[p] \subseteq OpenRead

QueueFits(p) ==
    \/ StartFits(p, QueueStart2, Change1)
    \/ method[p] = "read" /\ todo[p] = Read1 /\ held[p] \subseteq OpenRead
    \/ method[p] \in {"change", "bulk"} /\ todo[p] = Change1 /\ held[p] \subseteq OpenRead
    \/ /\ method[p] = "enqueue" /\ held[p] \subseteq OpenRead
       /\ todo[p] \in {Enqueue2, Change1}
    \/ /\ method[p] = "dequeue"
       /\ \/ todo[p] = Dequeue2 /\ held[p] \subseteq OpenRead
          \/ todo[p] = Change1 /\ held[p] \subseteq {"AccessShare", "RowShare"}
    \/ /\ method[p] = "solo"
       /\ \/ /\ todo[p] = Solo3
             /\ held[p] \subseteq OpenRead
          \/ /\ todo[p] \in {Enqueue2, Change1}
             /\ "Exclusive" \in held[p]

Fits(p) == IF table = "face_embeddings" THEN StoreFits(p) ELSE QueueFits(p)

\* A method that has all its table locks.
Over(p) == /\ method[p] \notin {"down", "idle"}
           /\ todo[p] = <<>>
           /\ rows[p] # <<>> => "RowExclusive" \in held[p]
           /\ method[p] \in {"change", "bulk", "dequeue"} => held[p] \subseteq Serving
           /\ LeavesOpen(method[p]) => held[p] \subseteq OpenRead
           /\ method[p] = "solo" => "Exclusive" \in held[p]

Place(p) == \/ Resting(p) /\ todo[p] = <<>>
            \/ method[p] \notin {"down", "idle"} /\ Fits(p)
            \/ Over(p)

\* Only three methods lock rows.  One that changes a single row holds none
\* while it wants it; a dequeue has locked the one that it will change.
RowFits(p) ==
    \/ /\ rows[p] = <<>>
       /\ locked[p] # {} => method[p] \in {"change", "bulk", "dequeue"}
    \/ method[p] = "bulk"
    \/ method[p] = "change" /\ locked[p] = {} /\ \E r \in Rows : rows[p] = <<r>>
    \/ method[p] = "dequeue" /\ \E r \in locked[p] : rows[p] = <<r>>

PgInv == /\ PTypeOK
         /\ \A p \in Procs : Place(p) /\ RowFits(p)
         /\ table = "job_queue" => \A p \in Procs : "AccessExclusive" \notin held[p]

LEMMA ConflictsSymmetric ==
    \A m, n \in Modes : m \in Conflicts[n] <=> n \in Conflicts[m]
  BY DEF Modes, Conflicts

\* Head, Tail and Len of the sequences that scripts and their rests are.
\* First statement, rest and length of each.
LEMMA Rests ==
    /\ <<>> \in Seq(Modes)
    /\ StoreStart2 # <<>> /\ StoreStart2 \in Seq(Modes) /\ Head(StoreStart2) = "Share" /\ Tail(StoreStart2) = Alter1 /\ Len(StoreStart2) = 2
    /\ Alter1 # <<>> /\ Alter1 \in Seq(Modes) /\ Head(Alter1) = "AccessExclusive" /\ Tail(Alter1) = <<>> /\ Len(Alter1) = 1
    /\ QueueStart2 # <<>> /\ QueueStart2 \in Seq(Modes) /\ Head(QueueStart2) = "Share" /\ Tail(QueueStart2) = Change1 /\ Len(QueueStart2) = 2
    /\ Enqueue2 # <<>> /\ Enqueue2 \in Seq(Modes) /\ Head(Enqueue2) = "AccessShare" /\ Tail(Enqueue2) = Change1 /\ Len(Enqueue2) = 2
    /\ Dequeue2 # <<>> /\ Dequeue2 \in Seq(Modes) /\ Head(Dequeue2) = "RowShare" /\ Tail(Dequeue2) = Change1 /\ Len(Dequeue2) = 2
    /\ Solo3 # <<>> /\ Solo3 \in Seq(Modes) /\ Head(Solo3) = "Exclusive" /\ Tail(Solo3) = Enqueue2 /\ Len(Solo3) = 3
    /\ Change1 # <<>> /\ Change1 \in Seq(Modes) /\ Head(Change1) = "RowExclusive" /\ Tail(Change1) = <<>> /\ Len(Change1) = 1
    /\ Read1 # <<>> /\ Read1 \in Seq(Modes) /\ Head(Read1) = "AccessShare" /\ Tail(Read1) = <<>> /\ Len(Read1) = 1
  BY DEF Modes, StoreStart2, Alter1, QueueStart2, Enqueue2, Dequeue2, Solo3, Change1, Read1

\* What a method goes for is a sequence of rows: one at most, or any number.
LEMMA RowsWanted ==
    ASSUME NEW m, NEW s \in RowsOf(m)
    PROVE  /\ s \in Seq(Rows)
           /\ m # "bulk" => s = <<>> \/ (m = "change" /\ \E r \in Rows : s = <<r>>)
  <1>1. Orders \subseteq Seq(Rows)
    <2>1. Cardinality(Rows) \in Nat
      BY RowsAssumption, FS_CardinalityType
    <2> QED  BY <2>1, SeqDef DEF Orders
  <1>2. s \in Seq(Rows)
    <2>1. s \in Orders \/ s = <<>>
      BY DEF RowsOf
    <2> QED  BY <1>1, <2>1, EmptySeq
  <1>3. ASSUME s # <<>>, Len(s) <= 1 PROVE \E r \in Rows : s = <<r>>
    <2>1. Len(s) = 1
      <3>1. Len(s) \in Nat \ {0}
        BY <1>2, <1>3, EmptySeq
      <3>2. \A k \in Nat \ {0} : k <= 1 => k = 1
        OBVIOUS
      <3> QED  BY <1>3, <3>1, <3>2, Zenon
    <2>2. s[1] \in Rows /\ s = <<s[1]>>
      BY <1>2, <2>1, ElementOfSeq
    <2> QED  BY <2>2
  <1> QED  BY <1>2, <1>3 DEF RowsOf

LEMMA PgInvInit == Init => PgInv
  BY Rests DEF Init, PgInv, PTypeOK, Locks, Place, Resting, RowFits

\* A step of one process keeps PgInv if it keeps its part of it.
LEMMA OneProcess ==
    ASSUME PgInv, NEW p \in Procs, UNCHANGED table,
           method' \in [Procs -> StoreMethods \cup QueueMethods \cup {"down", "idle"}],
           todo' \in [Procs -> Seq(Modes)],
           rows' \in [Procs -> Seq(Rows)], locked' \in [Procs -> SUBSET Rows],
           held' \in [Procs -> SUBSET Modes], aborted' \in [Procs -> BOOLEAN],
           \A q \in Procs \ {p} : /\ method'[q] = method[q] /\ todo'[q] = todo[q]
                                  /\ rows'[q] = rows[q] /\ locked'[q] = locked[q]
                                  /\ held'[q] = held[q] /\ aborted'[q] = aborted[q],
           Place(p)', RowFits(p)', Locks',
           table = "job_queue" => "AccessExclusive" \notin held'[p]
    PROVE  PgInv'
  <1>1. ASSUME NEW q \in Procs \ {p} PROVE Place(q)' /\ RowFits(q)'
    <2>1. Place(q) /\ RowFits(q)
      BY DEF PgInv
    <2>2. /\ method'[q] = method[q] /\ todo'[q] = todo[q] /\ held'[q] = held[q]
          /\ rows'[q] = rows[q] /\ locked'[q] = locked[q] /\ table' = table
      BY <1>1
    <2>3. Place(q)'
      BY <2>1, <2>2 DEF Place, Resting, Over, Fits, StoreFits, QueueFits, StartFits
    <2> QED  BY <2>1, <2>2, <2>3 DEF RowFits
  <1>2. PTypeOK'
    BY DEF PgInv, PTypeOK
  <1> QED  BY <1>1, <1>2 DEF PgInv

\* A step that lets go of every lock keeps it.
LEMMA Released ==
    ASSUME PgInv, NEW p \in Procs, UNCHANGED table, Release(p),
           NEW m \in StoreMethods \cup QueueMethods \cup {"down", "idle"},
           method' = [method EXCEPT ![p] = m],
           aborted' \in [Procs -> BOOLEAN], aborted'[p] => m = "idle",
           todo' \in [Procs -> Seq(Modes)], rows' \in [Procs -> Seq(Rows)],
           \A q \in Procs \ {p} : /\ todo'[q] = todo[q] /\ rows'[q] = rows[q]
                                  /\ aborted'[q] = aborted[q],
           Place(p)', RowFits(p)'
    PROVE  PgInv'
  <1>1. /\ held' \in [Procs -> SUBSET Modes] /\ held'[p] = {}
        /\ locked' \in [Procs -> SUBSET Rows] /\ locked'[p] = {}
        /\ \A q \in Procs \ {p} : held'[q] = held[q] /\ locked'[q] = locked[q]
    BY DEF PgInv, PTypeOK, Release
  <1>2. /\ method' \in [Procs -> StoreMethods \cup QueueMethods \cup {"down", "idle"}]
        /\ method'[p] = m /\ \A q \in Procs \ {p} : method'[q] = method[q]
    BY DEF PgInv, PTypeOK
  <1>3. Locks'
    <2>1. Locks
      BY DEF PgInv, PTypeOK
    <2>2. ASSUME NEW q \in Procs, NEW r \in Procs, NEW n \in Modes, q # r, n \in held'[q]
          PROVE  held'[r] \cap Conflicts[n] = {}
      <3>1. CASE r = p
        BY <1>1, <3>1
      <3>2. CASE r # p /\ q # p
        BY <1>1, <2>1, <2>2, <3>2 DEF Locks
      <3> QED  BY <1>1, <2>2, <3>1, <3>2
    <2>3. ASSUME NEW q \in Procs
          PROVE  /\ method'[q] = "idle" => held'[q] \subseteq {"AccessShare"} /\ locked'[q] = {}
                 /\ aborted'[q] => held'[q] = {} /\ method'[q] = "idle"
      <3>1. CASE q = p
        BY <1>1, <1>2, <3>1
      <3>2. CASE q # p
        <4>1. /\ method'[q] = method[q] /\ held'[q] = held[q] /\ aborted'[q] = aborted[q]
              /\ locked'[q] = locked[q]
          BY <1>1, <1>2, <3>2
        <4> QED  BY <2>1, <4>1 DEF Locks
      <3> QED  BY <3>1, <3>2
    <2>4. ASSUME NEW q \in Procs, NEW r \in Procs, q # r PROVE locked'[q] \cap locked'[r] = {}
      <3>1. locked'[q] \subseteq locked[q] /\ locked'[r] \subseteq locked[r]
        BY <1>1
      <3>2. locked[q] \cap locked[r] = {}
        BY <2>1, <2>4 DEF Locks
      <3> QED  BY <3>1, <3>2
    <2> QED  BY <2>2, <2>3, <2>4 DEF Locks
  <1> QED  BY <1>1, <1>2, <1>3, OneProcess

\* Where a method that begins is.
LEMMA BeginFits ==
    ASSUME PgInv, NEW p \in Procs, NEW m \in StoreMethods \cup QueueMethods,
           table = "face_embeddings" => m \in StoreMethods,
           table = "job_queue" => m \in QueueMethods,
           Run(p, m), UNCHANGED table, held'[p] \subseteq OpenRead,
           m = "start" => held'[p] = {}, locked'[p] = {}
    PROVE  /\ todo' \in [Procs -> Seq(Modes)] /\ Place(p)'
           /\ rows' \in [Procs -> Seq(Rows)] /\ RowFits(p)'
           /\ method' \in [Procs -> StoreMethods \cup QueueMethods \cup {"down", "idle"}]
           /\ method'[p] = m /\ m \notin {"down", "idle"}
           /\ \A q \in Procs \ {p} : /\ todo'[q] = todo[q] /\ method'[q] = method[q]
                                  /\ rows'[q] = rows[q]
  <1>1. /\ method'[p] = m /\ todo'[p] = Script(m)
        /\ \A q \in Procs \ {p} : todo'[q] = todo[q] /\ method'[q] = method[q]
        /\ method' \in [Procs -> StoreMethods \cup QueueMethods \cup {"down", "idle"}]
    BY DEF PgInv, PTypeOK, Run
  <1>2. {"Share", "AccessExclusive", "AccessShare", "RowExclusive", "RowShare", "Exclusive"}
           \subseteq Modes
    BY DEF Modes
  <1>3. m \notin {"down", "idle"} /\ Script(m) \in Seq(Modes) /\ Fits(p)'
    <2>1. CASE table = "face_embeddings"
      <3>1. m \in {"start", "count", "read", "change", "bulk"}
        BY <2>1 DEF StoreMethods, StoreScript
      <3>2. Script(m) = CASE m = "start" -> StoreStart2
                          [] m \in {"read", "count"} -> Read1
                          [] m \in {"change", "bulk"} -> Change1
        BY <2>1, <3>1 DEF Script, StoreScript, StoreStart2, Read1, Change1
      <3> QED  BY <1>1, <1>2, <2>1, <3>1, <3>2, Rests DEF Fits, StoreFits, StartFits
    <2>2. CASE table = "job_queue"
      <3>1. m \in {"start", "read", "change", "bulk", "enqueue", "dequeue", "solo"}
        BY <2>2 DEF QueueMethods, QueueScript
      <3>2. Script(m) = CASE m = "start" -> QueueStart2
                          [] m = "read" -> Read1
                          [] m \in {"change", "bulk"} -> Change1
                          [] m = "enqueue" -> Enqueue2
                          [] m = "dequeue" -> Dequeue2
                          [] m = "solo" -> Solo3
        BY <2>2, <3>1 DEF Script, QueueScript, EnqueueScript, SoloScript, QueueStart2, Read1,
             Change1, Enqueue2, Dequeue2, Solo3
      <3> QED  BY <1>1, <1>2, <2>2, <3>1, <3>2, Rests DEF Fits, QueueFits, StartFits
    <2> QED  BY <2>1, <2>2 DEF PgInv, PTypeOK
  <1>4. todo' \in [Procs -> Seq(Modes)]
    BY <1>3 DEF Run, PgInv, PTypeOK
  <1>5. /\ rows' \in [Procs -> Seq(Rows)] /\ RowFits(p)'
        /\ \A q \in Procs \ {p} : rows'[q] = rows[q]
    <2>1. PICK s \in RowsOf(m) : rows' = [rows EXCEPT ![p] = s]
      BY DEF Run
    <2>2. /\ s \in Seq(Rows)
          /\ m # "bulk" => s = <<>> \/ (m = "change" /\ \E r \in Rows : s = <<r>>)
      BY RowsWanted
    <2>3. rows' \in [Procs -> Seq(Rows)] /\ rows'[p] = s
      BY <2>1, <2>2 DEF PgInv, PTypeOK
    <2> QED  BY <1>1, <2>1, <2>2, <2>3 DEF RowFits, PgInv, PTypeOK
  <1> QED  BY <1>1, <1>3, <1>4, <1>5 DEF Place

\* A statement runs: where that leaves the method, and which lock it took.
LEMMA ExecuteFits ==
    ASSUME PgInv, NEW p \in Procs, Execute(p)
    PROVE  /\ Head(todo[p]) \in Modes
           /\ table = "job_queue" => Head(todo[p]) # "AccessExclusive"
           /\ todo' \in [Procs -> Seq(Modes)]
           /\ Place(p)'
  <1>0. rows[p] # <<>> => method[p] \in {"change", "bulk", "dequeue"}
    BY DEF PgInv, RowFits
  <1>1. /\ held'[p] = held[p] \cup {Head(todo[p])} /\ todo'[p] = Tail(todo[p])
        /\ method'[p] = method[p] /\ table' = table
        /\ Head(todo[p]) # "RowShare" => rows'[p] = rows[p]
    BY DEF PgInv, PTypeOK, Execute
  <1>2. {"Share", "AccessExclusive", "AccessShare", "RowExclusive", "RowShare", "Exclusive"}
           \subseteq Modes
    BY DEF Modes
  <1>3. Fits(p) /\ method[p] \notin {"down", "idle"}
    BY DEF PgInv, Place, Execute, Waiting, Resting, Over
  <1>4. CASE table = "face_embeddings"
    <2>1. StoreFits(p)
      BY <1>3, <1>4 DEF Fits
    <2>2. Head(todo[p]) \in Modes /\ Tail(todo[p]) \in Seq(Modes)
      BY <1>2, <2>1, Rests DEF StoreFits, StartFits
    <2>3. StoreFits(p)' \/ Over(p)'
      BY <1>0, <1>1, <1>2, <1>3, <2>1, Rests DEF StoreFits, StartFits, Over, LeavesOpen, OpenRead, Serving
    <2> QED  BY <1>1, <1>3, <1>4, <2>2, <2>3 DEF Place, Fits, Execute, PgInv, PTypeOK
  <1>5. CASE table = "job_queue"
    <2>1. QueueFits(p)
      BY <1>3, <1>5 DEF Fits
    <2>2. /\ Head(todo[p]) \in Modes \ {"AccessExclusive"} /\ Tail(todo[p]) \in Seq(Modes)
      BY <1>2, <2>1, Rests DEF QueueFits, StartFits
    <2>3. QueueFits(p)' \/ Over(p)'
      BY <1>0, <1>1, <1>2, <1>3, <2>1, Rests DEF QueueFits, StartFits, Over, LeavesOpen, OpenRead, Serving
    <2> QED  BY <1>1, <1>3, <1>5, <2>2, <2>3 DEF Place, Fits, Execute, PgInv, PTypeOK
  <1> QED  BY <1>4, <1>5 DEF PgInv, PTypeOK

\* It finds a row that nobody has locked, or leaves all rows as they are.
LEMMA ExecuteRows ==
    ASSUME PgInv, NEW p \in Procs, Execute(p)
    PROVE  /\ rows' \in [Procs -> Seq(Rows)] /\ locked' \in [Procs -> SUBSET Rows]
           /\ \A q \in Procs \ {p} : rows'[q] = rows[q] /\ locked'[q] = locked[q]
           /\ \A q, r \in Procs : q # r => locked'[q] \cap locked'[r] = {}
           /\ RowFits(p)'
  <1>1. RowFits(p) /\ Place(p) /\ Locks /\ method' = method
    BY DEF PgInv, PTypeOK, Execute
  <1>2. CASE Head(todo[p]) = "RowShare"
    <2>1. PICK n \in Unlocked : /\ rows' = [rows EXCEPT ![p] = <<n>>]
                                /\ locked' = [locked EXCEPT ![p] = @ \cup {n}]
      BY <1>2 DEF Execute, Pick
    <2>2. n \in Rows /\ \A q \in Procs : n \notin locked[q]
      BY <2>1 DEF Unlocked
    <2>3. /\ rows' \in [Procs -> Seq(Rows)] /\ rows'[p] = <<n>>
          /\ locked' \in [Procs -> SUBSET Rows] /\ locked'[p] = locked[p] \cup {n}
          /\ \A q \in Procs \ {p} : rows'[q] = rows[q] /\ locked'[q] = locked[q]
      BY <2>1, <2>2 DEF PgInv, PTypeOK
    <2>4. ASSUME NEW q \in Procs, NEW r \in Procs, q # r PROVE locked'[q] \cap locked'[r] = {}
      BY <1>1, <2>2, <2>3, <2>4 DEF Locks
    <2>5. method[p] = "dequeue"
      <3>1. Fits(p)
        BY <1>1 DEF Execute, Place, Resting, Over
      <3> QED  BY <1>2, <3>1, Rests DEF Fits, StoreFits, QueueFits, StartFits
    <2> QED  BY <1>1, <2>3, <2>4, <2>5 DEF RowFits
  <1>3. CASE Head(todo[p]) # "RowShare"
    <2>1. UNCHANGED <<rows, locked>>
      BY <1>3 DEF Execute
    <2> QED  BY <1>1, <2>1 DEF RowFits, Locks, PgInv, PTypeOK
  <1> QED  BY <1>2, <1>3

\* A method that ends: nothing is left to do, and the process rests.
LEMMA StopPlace ==
    ASSUME PgInv, NEW p \in Procs, NEW m \in {"down", "idle"}, Stop(p, m),
           held'[p] \subseteq OpenRead, m = "down" => held'[p] = {}, locked'[p] = {}
    PROVE  /\ todo' \in [Procs -> Seq(Modes)] /\ Place(p)'
           /\ rows' \in [Procs -> Seq(Rows)] /\ RowFits(p)'
           /\ method' \in [Procs -> StoreMethods \cup QueueMethods \cup {"down", "idle"}]
           /\ method'[p] = m
           /\ \A q \in Procs \ {p} : /\ todo'[q] = todo[q] /\ method'[q] = method[q]
                                  /\ rows'[q] = rows[q]
  <1>1. /\ todo' \in [Procs -> Seq(Modes)] /\ todo'[p] = <<>>
        /\ rows' \in [Procs -> Seq(Rows)] /\ rows'[p] = <<>>
        /\ method' \in [Procs -> StoreMethods \cup QueueMethods \cup {"down", "idle"}]
        /\ method'[p] = m
        /\ \A q \in Procs \ {p} : /\ todo'[q] = todo[q] /\ method'[q] = method[q]
                               /\ rows'[q] = rows[q]
    BY Rests, EmptySeq DEF Stop, PgInv, PTypeOK
  <1> QED  BY <1>1 DEF Place, Resting, RowFits

LEMMA PgInvStep == PgInv /\ [Next]_vars => PgInv'
  <1> SUFFICES ASSUME PgInv, [Next]_vars PROVE PgInv'
    OBVIOUS
  <1>m. /\ {"start", "count", "read", "change", "bulk"} \subseteq StoreMethods
        /\ QueueMethods = {"start", "read", "change", "bulk", "enqueue", "dequeue", "solo"}
    BY DEF StoreMethods, StoreScript, QueueMethods, QueueScript
  <1>b. ASSUME NEW p \in Procs, NEW m \in StoreMethods \cup QueueMethods,
               table = "face_embeddings" => m \in StoreMethods,
               table = "job_queue" => m \in QueueMethods,
               Run(p, m), held[p] \subseteq OpenRead, m = "start" => held[p] = {},
               locked[p] = {}, ~aborted[p], UNCHANGED <<table, locks, aborted>>
        PROVE  PgInv'
    <2>0. UNCHANGED <<table, held, locked, aborted>>
      BY <1>b DEF locks
    <2>1. /\ todo' \in [Procs -> Seq(Modes)] /\ Place(p)'
          /\ rows' \in [Procs -> Seq(Rows)] /\ RowFits(p)'
          /\ method' \in [Procs -> StoreMethods \cup QueueMethods \cup {"down", "idle"}]
          /\ method'[p] = m /\ m \notin {"down", "idle"}
          /\ \A q \in Procs \ {p} : /\ todo'[q] = todo[q] /\ method'[q] = method[q]
                                 /\ rows'[q] = rows[q]
      BY <1>b, <2>0, BeginFits
    <2>2. Locks'
      <3>1. Locks
        BY DEF PgInv, PTypeOK
      <3>2. ~aborted[p]
        BY <1>b
      <3>3. ASSUME NEW q \in Procs
            PROVE  /\ method'[q] = "idle" => method[q] = "idle"
                   /\ aborted[q] => method[q] = "idle" /\ q # p
        BY <2>1, <3>1, <3>2 DEF Locks
      <3> QED  BY <2>0, <2>1, <3>1, <3>3 DEF Locks
    <2> QED  BY <1>b, <2>0, <2>1, <2>2, OneProcess DEF PgInv, PTypeOK
  <1>s. ASSUME NEW p \in Procs, NEW m \in {"down", "idle"}, NEW a \in BOOLEAN,
               Stop(p, m), Release(p), aborted' = [aborted EXCEPT ![p] = a],
               a => m = "idle", UNCHANGED table
        PROVE  PgInv'
    <2>1. held'[p] = {} /\ locked'[p] = {}
      BY <1>s DEF Release, PgInv, PTypeOK
    <2>2. /\ todo' \in [Procs -> Seq(Modes)] /\ Place(p)'
          /\ rows' \in [Procs -> Seq(Rows)] /\ RowFits(p)'
          /\ \A q \in Procs \ {p} : todo'[q] = todo[q] /\ rows'[q] = rows[q]
      BY <1>s, <2>1, StopPlace
    <2>3. /\ aborted' \in [Procs -> BOOLEAN] /\ aborted'[p] = a
          /\ \A q \in Procs \ {p} : aborted'[q] = aborted[q]
      BY <1>s DEF PgInv, PTypeOK
    <2> QED  BY <1>s, <2>2, <2>3, Released DEF Stop
  <1>1. ASSUME NEW p \in Procs, Start(p) PROVE PgInv'
    <2>1. held[p] = {} /\ locked[p] = {} /\ ~aborted[p]
      BY <1>1 DEF Start, PgInv, PTypeOK, Locks, Place, Resting, Over, RowFits
    <2> QED  BY <1>1, <1>b, <1>m, <2>1 DEF Start
  <1>2. ASSUME NEW p \in Procs, Call(p) PROVE PgInv'
    <2>1. PICK m \in Served : Run(p, m)
      BY <1>2 DEF Call
    <2>2. /\ m \in StoreMethods \cup QueueMethods
          /\ table = "face_embeddings" => m \in StoreMethods
          /\ table = "job_queue" => m \in QueueMethods
      BY <2>1, <1>m DEF Served
    <2>3. held[p] \subseteq OpenRead /\ locked[p] = {} /\ m # "start"
      BY <1>2, <2>1 DEF Call, PgInv, Place, Resting, Over, RowFits, Served
    <2> QED  BY <1>2, <1>b, <2>1, <2>2, <2>3 DEF Call
  <1>3. ASSUME NEW p \in Procs, Execute(p) PROVE PgInv'
    <2> DEFINE m == Head(todo[p])
    <2>1. /\ m \in Modes
          /\ table = "job_queue" => m # "AccessExclusive"
          /\ todo' \in [Procs -> Seq(Modes)] /\ Place(p)'
      BY <1>3, ExecuteFits
    <2>r. /\ rows' \in [Procs -> Seq(Rows)] /\ locked' \in [Procs -> SUBSET Rows]
          /\ \A q \in Procs \ {p} : rows'[q] = rows[q] /\ locked'[q] = locked[q]
          /\ \A q, r \in Procs : q # r => locked'[q] \cap locked'[r] = {}
          /\ RowFits(p)'
      BY <1>3, ExecuteRows
    <2>2. /\ held'[p] = held[p] \cup {m} /\ method[p] \notin {"down", "idle"}
          /\ held' \in [Procs -> SUBSET Modes]
          /\ \A q \in Procs \ {p} : held'[q] = held[q] /\ todo'[q] = todo[q]
          /\ UNCHANGED <<table, method, aborted>>
      BY <1>3, <2>1 DEF Execute, Granted, Waiting, PgInv, PTypeOK
    <2>3. \A q \in Procs \ {p} : Conflicts[m] \cap held[q] = {}
      BY <1>3 DEF Execute, Granted, BlockedBy, NeedsTable
    <2>4. Locks'
      <3>1. Locks
        BY DEF PgInv, PTypeOK
      <3>2. ASSUME NEW q \in Procs, NEW r \in Procs, NEW n \in Modes, q # r, n \in held'[q]
            PROVE  held'[r] \cap Conflicts[n] = {}
        <4>1. CASE q = p /\ n = m
          BY <2>2, <2>3, <3>2, <4>1
        <4>2. CASE ~(q = p /\ n = m)
          <5>1. n \in held[q] /\ held[r] \cap Conflicts[n] = {}
            BY <2>2, <3>1, <3>2, <4>2 DEF Locks
          <5>2. r = p => m \notin Conflicts[n]
            <6>1. ASSUME r = p PROVE n \notin Conflicts[m]
              BY <2>3, <3>2, <5>1, <6>1
            <6> QED  BY <2>1, <3>2, <6>1, ConflictsSymmetric
          <5> QED  BY <2>2, <5>1, <5>2
        <4> QED  BY <4>1, <4>2
      <3>3. ASSUME NEW q \in Procs
            PROVE  /\ method'[q] = "idle" => held'[q] \subseteq {"AccessShare"} /\ locked'[q] = {}
                   /\ aborted'[q] => held'[q] = {} /\ method'[q] = "idle"
        <4>1. CASE q = p
          BY <2>2, <3>1, <4>1 DEF Locks
        <4>2. CASE q # p
          BY <2>2, <2>r, <3>1, <4>2 DEF Locks
        <4> QED  BY <4>1, <4>2
      <3> QED  BY <2>r, <3>2, <3>3 DEF Locks
    <2> QED  BY <2>1, <2>r, <2>2, <2>4, OneProcess DEF PgInv, PTypeOK
  <1>12. ASSUME NEW p \in Procs, LockRow(p) PROVE PgInv'
    <2> DEFINE n == Head(rows[p])
    <2>1. /\ Locks /\ Place(p) /\ RowFits(p) /\ todo[p] = <<>> /\ rows[p] # <<>>
          /\ method[p] \notin {"down", "idle"} /\ rows[p] \in Seq(Rows)
      BY <1>12 DEF LockRow, Granted, Waiting, PgInv, PTypeOK
    <2>2. n \in Rows /\ Tail(rows[p]) \in Seq(Rows)
      BY <2>1
    <2>3. /\ UNCHANGED <<table, method, todo, held, aborted>>
          /\ rows' \in [Procs -> Seq(Rows)] /\ rows'[p] = Tail(rows[p])
          /\ locked' \in [Procs -> SUBSET Rows] /\ locked'[p] = locked[p] \cup {n}
          /\ \A q \in Procs \ {p} : rows'[q] = rows[q] /\ locked'[q] = locked[q]
      BY <1>12, <2>2 DEF LockRow, PgInv, PTypeOK
    <2>4. \A q \in Procs \ {p} : n \notin locked[q]
      BY <1>12, <2>1 DEF LockRow, Granted, BlockedBy, NeedsRow
    <2>5. Over(p)
      BY <2>1, Rests DEF Place, Resting, Fits, StoreFits, QueueFits, StartFits
    <2>6. Place(p)'
      BY <2>1, <2>3, <2>5 DEF Place, Over
    <2>7. RowFits(p)'
      <3>1. ASSUME NEW r, rows[p] = <<r>> PROVE rows'[p] = <<>>
        BY <2>3, <3>1
      <3> QED  BY <2>1, <2>3, <3>1 DEF RowFits
    <2>8. Locks'
      <3>1. ASSUME NEW q \in Procs, NEW r \in Procs, q # r
            PROVE  locked'[q] \cap locked'[r] = {}
        <4>1. locked[q] \cap locked[r] = {}
          BY <2>1, <3>1 DEF Locks
        <4> QED  BY <2>3, <2>4, <3>1, <4>1
      <3>2. ASSUME NEW q \in Procs, method'[q] = "idle" PROVE locked'[q] = {}
        BY <2>1, <2>3, <3>2 DEF Locks
      <3> QED  BY <2>1, <2>3, <3>1, <3>2 DEF Locks
    <2> QED  BY <2>3, <2>6, <2>7, <2>8, OneProcess DEF PgInv, PTypeOK
  <1>4. ASSUME NEW p \in Procs, Finish(p) PROVE PgInv'
    <2>1. Over(p) /\ rows[p] = <<>> /\ ~aborted[p] /\ UNCHANGED <<table, aborted>>
      <3>1. /\ method[p] \notin {"down", "idle"} /\ todo[p] = <<>> /\ rows[p] = <<>>
            /\ UNCHANGED <<table, aborted>>
        BY <1>4 DEF Finish, Waiting
      <3>2. Locks /\ Place(p)
        BY DEF PgInv, PTypeOK
      <3>3. ~Fits(p)
        BY <3>1, Rests DEF Fits, StoreFits, QueueFits, StartFits
      <3> QED  BY <3>1, <3>2, <3>3 DEF Locks, Place, Resting
    <2>2. CASE method[p] = "start" /\ table = "face_embeddings"
      <3>1. Run(p, "count") /\ Release(p)
        BY <1>4, <2>2 DEF Finish, LeavesOpen
      <3>2. held'[p] = {} /\ locked'[p] = {}
        BY <3>1 DEF Release, PgInv, PTypeOK
      <3>3. /\ todo' \in [Procs -> Seq(Modes)] /\ Place(p)'
            /\ rows' \in [Procs -> Seq(Rows)] /\ RowFits(p)'
            /\ \A q \in Procs \ {p} : todo'[q] = todo[q] /\ rows'[q] = rows[q]
        BY <1>m, <2>1, <2>2, <3>1, <3>2, BeginFits
      <3> QED  BY <1>m, <2>1, <3>1, <3>3, Released DEF Run, PgInv, PTypeOK
    <2>3. CASE ~(method[p] = "start" /\ table = "face_embeddings") /\ ~LeavesOpen(method[p])
      <3>1. Stop(p, "idle") /\ Release(p) /\ aborted' = [aborted EXCEPT ![p] = FALSE]
        BY <1>4, <2>1, <2>3 DEF Finish, PgInv, PTypeOK
      <3> QED  BY <1>s, <2>1, <3>1
    <2>4. CASE LeavesOpen(method[p])
      <3>1. /\ Stop(p, "idle") /\ UNCHANGED <<held, locked>> /\ held[p] \subseteq OpenRead
            /\ locked[p] = {}
        BY <1>4, <2>1, <2>4 DEF Finish, LeavesOpen, Over, RowFits, PgInv, locks
      <3>2. /\ todo' \in [Procs -> Seq(Modes)] /\ Place(p)'
            /\ rows' \in [Procs -> Seq(Rows)] /\ RowFits(p)'
            /\ method' \in [Procs -> StoreMethods \cup QueueMethods \cup {"down", "idle"}]
            /\ method'[p] = "idle"
            /\ \A q \in Procs \ {p} : /\ todo'[q] = todo[q] /\ method'[q] = method[q]
                                  /\ rows'[q] = rows[q]
        BY <3>1, StopPlace
      <3>3. Locks'
        BY <2>1, <3>1, <3>2 DEF Locks, PgInv, PTypeOK, OpenRead
      <3> QED  BY <2>1, <3>1, <3>2, <3>3, OneProcess DEF PgInv, PTypeOK
    <2> QED  BY <2>2, <2>3, <2>4
  <1>5. ASSUME NEW p \in Procs, TurnAway(p) PROVE PgInv'
    <2>1. held[p] \subseteq OpenRead /\ locked[p] = {} /\ ~aborted[p]
      <3>1. method[p] = "enqueue" /\ Len(todo[p]) = 1
        BY <1>5 DEF TurnAway
      <3>2. Locks /\ Place(p) /\ RowFits(p)
        BY DEF PgInv, PTypeOK
      <3>3. Fits(p)
        BY <3>1, <3>2, Rests DEF Place, Resting, Over
      <3> QED  BY <3>1, <3>2, <3>3 DEF Locks, Fits, StoreFits, QueueFits, StartFits, OpenRead,
                    RowFits
    <2>2. /\ todo' \in [Procs -> Seq(Modes)] /\ Place(p)'
          /\ rows' \in [Procs -> Seq(Rows)] /\ RowFits(p)' /\ UNCHANGED locked
          /\ method' \in [Procs -> StoreMethods \cup QueueMethods \cup {"down", "idle"}]
          /\ method'[p] = "idle"
          /\ \A q \in Procs \ {p} : /\ todo'[q] = todo[q] /\ method'[q] = method[q]
                                  /\ rows'[q] = rows[q]
      BY <1>5, <2>1, StopPlace DEF TurnAway, locks
    <2>3. Locks'
      BY <1>5, <2>1, <2>2 DEF TurnAway, Locks, PgInv, PTypeOK, OpenRead, locks
    <2> QED  BY <1>5, <2>1, <2>2, <2>3, OneProcess DEF TurnAway, PgInv, PTypeOK, locks
  <1>6. ASSUME NEW p \in Procs, RollBack(p) PROVE PgInv'
    <2>1. aborted' = [aborted EXCEPT ![p] = FALSE]
      BY <1>6 DEF RollBack, RollsBack, PgInv, PTypeOK, Locks
    <2> QED  BY <1>6, <1>s, <2>1 DEF RollBack
  <1>7. ASSUME NEW p \in Procs, Raise(p) PROVE PgInv'
    <2>1. CASE Starting(p)
      BY <1>7, <1>s, <2>1 DEF Raise
    <2>2. CASE ~Starting(p)
      BY <1>7, <1>s, <2>2 DEF Raise, RollsBack
    <2> QED  BY <2>1, <2>2
  <1>8. ASSUME NEW p \in Procs, Poll(p) PROVE PgInv'
    <2>1. Locks'
      BY <1>8 DEF Poll, Locks, PgInv, PTypeOK, work, locks
    <2>2. Place(p)' /\ RowFits(p)'
      BY <1>8 DEF Poll, PgInv, Place, Resting, Over, Fits, StoreFits, QueueFits, StartFits,
           RowFits, work, locks
    <2> QED  BY <1>8, <2>1, <2>2, OneProcess DEF Poll, PgInv, PTypeOK, work, locks
  <1>9. ASSUME NEW p \in Procs, HangUp(p) PROVE PgInv'
    <2>1. CASE Starting(p)
      BY <1>9, <1>s, <2>1 DEF HangUp
    <2>2. CASE ~Starting(p)
      BY <1>9, <1>s, <2>2 DEF HangUp
    <2> QED  BY <2>1, <2>2
  <1>10. ASSUME NEW p \in Procs, Exit(p) PROVE PgInv'
    BY <1>10, <1>s DEF Exit
  <1>11. CASE UNCHANGED vars
    <2>1. \A p \in Procs : Place(p)' /\ RowFits(p)'
      BY <1>11 DEF vars, work, locks, PgInv, Place, Resting, Over, Fits, StoreFits, QueueFits,
           StartFits, RowFits
    <2> QED  BY <1>11, <2>1 DEF vars, work, locks, PgInv, PTypeOK, Locks
  <1> QED  BY <1>1, <1>2, <1>3, <1>4, <1>5, <1>6, <1>7, <1>8, <1>9, <1>10, <1>11, <1>12
             DEF Next, BreakDeadlock

LEMMA PgInvariant == Spec => []PgInv
  BY PgInvInit, PgInvStep, PTL DEF Spec

\* Type correctness, and siblings never hold conflicting locks.
THEOREM ConnectionTyped == Spec => []PTypeOK
  <1>1. PgInv => PTypeOK
    BY DEF PgInv
  <1> QED  BY <1>1, PgInvariant, PTL

\* What enqueue_if_idle counts stays true until its row is committed.
THEOREM SoloCounts == Spec => []SoloCountsAlone
  <1>1. PgInv => SoloCountsAlone
    <2> SUFFICES ASSUME PgInv, NEW p \in Procs, method[p] = "solo", Len(todo[p]) <= 2,
                        NEW q \in Procs \ {p}
                 PROVE  "RowExclusive" \notin held[q]
      BY DEF SoloCountsAlone
    <2>1. Locks /\ Place(p) /\ held \in [Procs -> SUBSET Modes]
      BY DEF PgInv, PTypeOK
    <2>2. "Exclusive" \in held[p]
      BY <2>1, Rests DEF Place, Resting, Over, Fits, StoreFits, QueueFits, StartFits
    <2>3. "Exclusive" \in Modes /\ "RowExclusive" \in Conflicts["Exclusive"]
      BY DEF Modes, Conflicts
    <2> QED  BY <2>1, <2>2, <2>3 DEF Locks
  <1> QED  BY <1>1, PgInvariant, PTL

\* Everybody in a cycle also stands in somebody's way: without him the
\* others would still be stuck.
LEMMA CycleBlocks ==
    ASSUME NEW D \in SUBSET Procs, Cycle(D), NEW p \in D
    PROVE  \E r \in D : BlockedBy(r, p)
  <1> SUFFICES ASSUME \A r \in D : ~BlockedBy(r, p) PROVE FALSE
    OBVIOUS
  <1> DEFINE E == D \ {p}
  <1>1. \A r \in D : \E q \in D : BlockedBy(r, q)
    BY DEF Cycle, Stuck
  <1>2. \A r \in E : \E q \in E : BlockedBy(r, q)
    BY <1>1
  <1>3. E # {}
    BY <1>1 DEF BlockedBy
  <1>4. E \in SUBSET D /\ Stuck(E) /\ E # D
    BY <1>2, <1>3 DEF Stuck
  <1> QED  BY <1>4 DEF Cycle

\* Two dequeues are after different jobs.
THEOREM DequeuesAreApart == Spec => []DequeuesApart
  <1>1. PgInv => DequeuesApart
    <2> SUFFICES ASSUME PgInv, NEW p \in Procs, NEW q \in Procs, p # q,
                        method[p] = "dequeue", method[q] = "dequeue"
                 PROVE  Range(rows[p]) \cap (Range(rows[q]) \cup locked[q]) = {}
      BY DEF DequeuesApart
    <2>1. locked[p] \cap locked[q] = {}
      BY DEF PgInv, PTypeOK, Locks
    <2>2. ASSUME NEW r \in {p, q} PROVE Range(rows[r]) \subseteq locked[r]
      <3>1. rows[r] = <<>> \/ \E n \in locked[r] : rows[r] = <<n>>
        BY <2>2 DEF PgInv, RowFits
      <3> QED  BY <3>1 DEF Range
    <2> QED  BY <2>1, <2>2
  <1> QED  BY <1>1, PgInvariant, PTL

\* The invariant and a cycle: everybody in it waits and stands in the way.
InCycle(D) == /\ PgInv /\ D \in SUBSET Procs
              /\ \A p \in D : /\ Waiting(p)
                              /\ \E q \in D : BlockedBy(p, q)
                              /\ \E q \in D : BlockedBy(q, p)

\* With a start in the cycle everybody in it waits for a table lock: the
\* start holds a Share lock, so that no sibling is as far as its rows.
LEMMA TableCycle ==
    ASSUME NEW D, InCycle(D), NEW s \in D, method[s] = "start"
    PROVE  \A p \in D : todo[p] # <<>> /\ Fits(p)
  <1>1. Locks /\ \A p \in D : p \in Procs /\ Place(p) /\ RowFits(p)
    BY DEF InCycle, PgInv, PTypeOK
  <1>2. rows[s] = <<>> /\ locked[s] = {}
    BY <1>1 DEF RowFits
  <1>3. Fits(s)
    BY <1>1, <1>2 DEF InCycle, Waiting, Place, Resting, Over
  <1>4. "Share" \in held[s]
    <2>1. PICK q \in D : NeedsTable(q, s)
      BY <1>2 DEF InCycle, BlockedBy, NeedsRow
    <2>2. held[s] # {}
      BY <2>1 DEF NeedsTable
    <2> QED  BY <1>3, <2>2 DEF Fits, StoreFits, QueueFits, StartFits
  <1>5. \A p \in D \ {s} : "RowExclusive" \notin held[p]
    <2>1. "Share" \in Modes /\ "RowExclusive" \in Conflicts["Share"]
      BY DEF Modes, Conflicts
    <2> QED  BY <1>1, <1>4, <2>1 DEF Locks
  <1>6. ASSUME NEW p \in D PROVE todo[p] # <<>> /\ Fits(p)
    <2>1. ~Over(p)
      BY <1>2, <1>5 DEF InCycle, Waiting, Over
    <2> QED  BY <1>1, <2>1, Rests DEF InCycle, Waiting, Place, Resting, Fits, StoreFits,
                  QueueFits, StartFits
  <1> QED  BY <1>6

\* It is of the first kind.
LEMMA StartInCycle ==
    ASSUME NEW D, InCycle(D), NEW s \in D, method[s] = "start"
    PROVE  AroundAStart(D)
  <1>0. /\ Locks /\ table \in {"face_embeddings", "job_queue"}
        /\ \A p \in D : p \in Procs /\ held[p] \subseteq Modes
    BY DEF InCycle, PgInv, PTypeOK
  <1>1. \A p \in D : todo[p] # <<>> /\ Fits(p)
    BY TableCycle
  <1>2. /\ \A p \in D : \E q \in D : p # q /\ NeedsTable(p, q)
        /\ \A p \in D : \E q \in D : p # q /\ NeedsTable(q, p)
    BY <1>1 DEF InCycle, BlockedBy, NeedsRow
  <1>3. CASE table = "face_embeddings"
    <2>1. ASSUME NEW p \in D, method[p] # "start" PROVE held[p] \subseteq OpenRead
      BY <1>1, <1>3, <2>1 DEF Fits, StoreFits, StartFits
    <2>2. ASSUME NEW p \in D, method[p] # "start" PROVE "AccessShare" \in held[p]
      BY <1>2, <2>1, <2>2 DEF NeedsTable, OpenRead
    <2> QED  BY <1>3, <2>2 DEF AroundAStart
  <1>4. CASE table = "job_queue"
    <2>1. ASSUME NEW p \in D PROVE Head(todo[p]) \in Modes \ {"AccessExclusive"}
      BY <1>1, <1>4, Rests DEF Fits, QueueFits, StartFits, Modes
    <2>2. ASSUME NEW p \in D PROVE ~(held[p] \subseteq OpenRead)
      <3>1. PICK r \in D : NeedsTable(r, p)
        BY <1>2
      <3>2. "AccessShare" \notin Conflicts[Head(todo[r])]
        BY <2>1 DEF Modes, Conflicts
      <3> QED  BY <3>1, <3>2 DEF NeedsTable, OpenRead
    <2>3. ASSUME NEW p \in D PROVE Head(todo[p]) # "Exclusive"
      BY <1>1, <1>4, <2>2, Rests DEF Fits, QueueFits, StartFits
    <2>4. ASSUME NEW p \in D PROVE ~(held[p] \subseteq {"AccessShare", "RowShare"})
      <3>1. PICK r \in D : NeedsTable(r, p)
        BY <1>2
      <3>2. {"AccessShare", "RowShare"} \cap Conflicts[Head(todo[r])] = {}
        BY <2>1, <2>3 DEF Modes, Conflicts
      <3> QED  BY <3>1, <3>2 DEF NeedsTable
    <2>5. ASSUME NEW p \in D, method[p] # "start" PROVE FALSE
      <3>1. "Exclusive" \in held[p] /\ Head(todo[p]) \in {"AccessShare", "RowExclusive"}
        BY <1>1, <1>4, <2>2, <2>4, <2>5, Rests DEF Fits, QueueFits, StartFits
      <3>2. PICK q \in D : p # q /\ NeedsTable(p, q)
        BY <1>2
      <3>3. held[q] \cap Conflicts["Exclusive"] = {}
        BY <1>0, <3>1, <3>2 DEF Locks, Modes
      <3>4. held[q] \subseteq {"AccessShare"}
        BY <1>0, <3>3 DEF Conflicts, Modes
      <3> QED  BY <3>1, <3>2, <3>4 DEF NeedsTable, Conflicts
    <2> QED  BY <2>5 DEF AroundAStart
  <1> QED  BY <1>0, <1>3, <1>4

\* What the processes of a cycle without a start hold: it keeps nobody from
\* a lock that one of them asks for.
LEMMA ServingHolds ==
    ASSUME NEW D, InCycle(D), \A p \in D : method[p] # "start"
    PROVE  \A p \in D : /\ method[p] \in {"change", "bulk", "dequeue"}
                        /\ held[p] \subseteq Serving
                        /\ todo[p] # <<>> => Head(todo[p]) \in Serving
  <1>0. /\ Locks /\ table \in {"face_embeddings", "job_queue"}
        /\ \A p \in D : p \in Procs /\ held[p] \subseteq Modes /\ Place(p) /\ RowFits(p)
    BY DEF InCycle, PgInv, PTypeOK
  <1>1. ASSUME NEW p \in D PROVE Fits(p) \/ (Over(p) /\ rows[p] # <<>>)
    BY <1>0 DEF InCycle, Waiting, Place, Resting, Over
  <1>2. ASSUME NEW p \in D, Over(p), rows[p] # <<>>
        PROVE  method[p] \in {"change", "bulk", "dequeue"} /\ held[p] \subseteq Serving
    BY <1>0, <1>2 DEF RowFits, Over
  <1>3. ASSUME NEW p \in D
        PROVE  todo[p] # <<>> =>
                 Head(todo[p]) \in {"AccessShare", "RowExclusive", "RowShare", "Exclusive"}
    BY <1>1, Rests DEF Fits, StoreFits, QueueFits, StartFits, Over
  <1>4. ASSUME NEW p \in D PROVE locked[p] # {} \/ ~(held[p] \subseteq OpenRead)
    <2>1. PICK q \in D : BlockedBy(q, p)
      BY DEF InCycle
    <2>2. CASE NeedsRow(q, p)
      BY <2>2 DEF NeedsRow
    <2>3. CASE NeedsTable(q, p)
      BY <1>3, <2>3 DEF NeedsTable, Conflicts, Modes, OpenRead
    <2> QED  BY <2>1, <2>2, <2>3 DEF BlockedBy
  <1>5. ASSUME NEW p \in D, "Exclusive" \in held[p], method[p] = "solo" PROVE FALSE
    <2>1. rows[p] = <<>> /\ Fits(p) /\ todo[p] # <<>>
      BY <1>0, <1>1, <1>5 DEF RowFits, InCycle, Waiting
    <2>2. PICK q \in D : p # q /\ NeedsTable(p, q)
      BY <2>1 DEF InCycle, BlockedBy, NeedsRow
    <2>3. held[q] \cap Conflicts["Exclusive"] = {}
      BY <1>0, <1>5, <2>2 DEF Locks, Modes
    <2>4. held[q] \subseteq {"AccessShare"}
      BY <1>0, <2>3 DEF Conflicts, Modes
    <2> QED  BY <1>3, <2>2, <2>4, <1>5, <2>1, Rests
               DEF NeedsTable, Conflicts, Modes, Fits, StoreFits, QueueFits, StartFits
  <1>6. ASSUME NEW p \in D, Fits(p)
        PROVE  /\ method[p] \in {"change", "bulk", "dequeue"}
               /\ held[p] \subseteq Serving
               /\ Head(todo[p]) \in Serving
    <2>1. CASE locked[p] # {}
      <3>1. method[p] \in {"change", "bulk", "dequeue"}
        BY <1>0, <2>1 DEF RowFits
      <3> QED  BY <1>6, <3>1, Rests DEF Fits, StoreFits, QueueFits, StartFits, OpenRead, Serving
    <2>2. CASE locked[p] = {} /\ ~(held[p] \subseteq OpenRead)
      <3>1. method[p] \in {"dequeue", "solo"}
        BY <1>6, <2>2 DEF Fits, StoreFits, QueueFits, StartFits
      <3>2. method[p] # "solo"
        BY <1>5, <1>6, <2>2, <3>1 DEF Fits, StoreFits, QueueFits, StartFits
      <3> QED  BY <1>6, <3>1, <3>2, Rests DEF Fits, StoreFits, QueueFits, StartFits, OpenRead,
                 Serving
    <2> QED  BY <1>4, <2>1, <2>2
  <1> QED  BY <1>1, <1>2, <1>6 DEF Over

\* It is of the second kind.
LEMMA NoStartInCycle ==
    ASSUME NEW D, InCycle(D), \A p \in D : method[p] # "start"
    PROVE  AmongBulks(D)
  <1>0. Locks /\ \A p \in D : p \in Procs /\ RowFits(p)
    BY DEF InCycle, PgInv, PTypeOK
  <1>1. \A p \in D : /\ method[p] \in {"change", "bulk", "dequeue"}
                     /\ held[p] \subseteq Serving
                     /\ todo[p] # <<>> => Head(todo[p]) \in Serving
    BY ServingHolds
  <1>2. ASSUME NEW p \in D, NEW q \in D PROVE ~NeedsTable(p, q)
    BY <1>1 DEF NeedsTable, Serving, Conflicts, Modes
  <1>3. ASSUME NEW p \in D PROVE method[p] = "bulk" /\ locked[p] # {}
    <2>1. PICK q \in D : p # q /\ NeedsRow(p, q)
      BY <1>2 DEF InCycle, BlockedBy
    <2>2. PICK r \in D : NeedsRow(r, p)
      BY <1>2 DEF InCycle, BlockedBy
    <2>3. locked[p] # {} /\ rows[p] # <<>>
      BY <2>1, <2>2 DEF NeedsRow
    <2>4. method[p] # "dequeue"
      <3>1. ASSUME NEW n \in locked[p], rows[p] = <<n>> PROVE FALSE
        <4>1. n \in locked[q]
          BY <2>1, <3>1 DEF NeedsRow
        <4> QED  BY <1>0, <2>1, <3>1, <4>1 DEF Locks
      <3> QED  BY <1>0, <2>3, <3>1 DEF RowFits
    <2> QED  BY <1>0, <1>1, <2>3, <2>4 DEF RowFits
  <1> QED  BY <1>3 DEF AmongBulks

\* Every deadlock is around a start, where a process that serves is caught
\* only because of a read it left open, or among methods that change many rows.
THEOREM DeadlocksAreOfTwoKinds == Spec => []DeadlockOnlyByStartOrBulk
  <1>1. PgInv => DeadlockOnlyByStartOrBulk
    <2> SUFFICES ASSUME PgInv, NEW D \in SUBSET Procs, Cycle(D)
                 PROVE  AroundAStart(D) \/ AmongBulks(D)
      BY DEF DeadlockOnlyByStartOrBulk
    <2>1. InCycle(D)
      <3>1. ASSUME NEW p \in D
            PROVE  /\ \E q \in D : BlockedBy(p, q)
                   /\ \E q \in D : BlockedBy(q, p)
        BY CycleBlocks DEF Cycle, Stuck
      <3> QED  BY <3>1 DEF InCycle, BlockedBy
    <2> QED  BY <2>1, StartInCycle, NoStartInCycle
  <1> QED  BY <1>1, PgInvariant, PTL

=============================================================================
