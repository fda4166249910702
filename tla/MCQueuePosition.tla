---------------------------- MODULE MCQueuePosition ----------------------------
(* Instances of QueuePosition for TLC: every worker in the one process.      *)
EXTENDS QueuePosition, TLC

CONSTANTS p1, w1, w2, j, k

HomeShared == w1 :> p1 @@ w2 :> p1

Symmetry ==
    {f \in Permutations(Workers \cup Jobs) : \A w \in Workers : f[w] \in Workers}
===============================================================================
