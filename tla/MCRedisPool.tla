---------------------------- MODULE MCRedisPool ----------------------------
(* Model-checking instance of RedisPool: two threads whose handlers select   *)
(* different databases (SESSION and one other) and share a pool; contexts    *)
(* are interchangeable.                                                      *)
EXTENDS RedisPool, TLC

Symmetry == Permutations(Contexts)

MCDbOf == [t \in Threads |-> IF t = "t1" THEN 0 ELSE 1]
=============================================================================
