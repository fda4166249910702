---------------------------- MODULE MCRedisJobQueue ----------------------------
(* Instances of RedisJobQueue for TLC.                                       *)
EXTENDS RedisJobQueue

Symmetry == Permutations(Procs)
===============================================================================
