----------------------------- MODULE MCClustering -----------------------------
(* Instances of Clustering for TLC: embeddings on a short line.            *)
EXTENDS Clustering, TLC

Line == 0..2
Gap(p, q) == IF p < q THEN q - p ELSE p - q

\* 1 - cosine grows with the square of a small angle, the Euclidean distance
\* with the angle.
Squares == [p \in Line |-> [q \in Line |-> Gap(p, q) * Gap(p, q)]]
Gaps    == [p \in Line |-> [q \in Line |-> Gap(p, q)]]

\* vec0, and pgvector with an index of two lists; that PostgreSQL may leave
\* its index aside is part of Search.
Vec0     == [dist |-> Gaps, list |-> [p \in Line |-> 1]]
PgVector == [dist |-> Squares, list |-> [p \in Line |-> IF p <= 1 THEN 1 ELSE 2]]
Both     == {Vec0, PgVector}

Symmetry == Permutations(Faces) \cup Permutations(Runs)
===============================================================================
