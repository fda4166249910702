----------------------------- MODULE MCSqliteStore -----------------------------
(* Instances of SqliteStore for TLC.                                         *)
EXTENDS SqliteStore, TLC

Symmetry ==
    {s \in Permutations(Procs \cup Faces \cup Photos) :
        \A x \in Procs \cup Faces :
            (x \in Procs => s[x] \in Procs) /\ (x \in Faces => s[x] \in Faces)}
===============================================================================
