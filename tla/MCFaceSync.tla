------------------------------ MODULE MCFaceSync ------------------------------
(* Instances of FaceSync for TLC.                                            *)
EXTENDS FaceSync, TLC

CONSTANTS a, b

FoundTwo    == a :> 2

Allow(requests, dismissals, sessions, mishaps, purges) ==
    [request |-> requests, dismiss |-> dismissals,
     session |-> sessions, mishap |-> mishaps, purge |-> purges]

Eventful  == Allow(2, 1, 1, 1, 1)
OneCrash  == Allow(1, 0, 0, 1, 0)

Symmetry == Permutations(Workers)
===============================================================================
