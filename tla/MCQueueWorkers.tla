---------------------------- MODULE MCQueueWorkers ----------------------------
(* Instances of QueueWorkers for TLC.                                        *)
EXTENDS QueueWorkers, TLC

CONSTANTS p1, p2, w1, w2, d, c

HomeShared == w1 :> p1 @@ w2 :> p1
HomeOwn    == w1 :> p1 @@ w2 :> p2
HomeSole   == w1 :> p1

\* With HomeOwn the processes are alike, each with its worker.
Symmetry ==
    {f \in Permutations(Procs \cup Workers) :
        \A w \in Workers : f[w] \in Workers /\ f[Home[w]] = Home[f[w]]}

May(crashes, stops, faults, purges) ==
    [crash |-> crashes, stop |-> stops, fault |-> faults, purge |-> purges]

Smooth       == May(0, 0, 0, 0)
Everything   == May(1, 1, 1, 1)
StopOnly     == May(0, 1, 0, 0)
CrashAndStop == May(1, 1, 0, 0)

\* Any two mishaps of those in the budget, in any order.
AnyTwo == Cardinality({m \in Mishaps : left[m] < Budget[m]}) <= 2

\* All but the faces, which decide about no other variable: the instance with
\* this view answers no question about them.
BarFaces == <<qvars, pc, stopping, left, ends>>
===============================================================================
