--------------------------- MODULE MCRedisClient ---------------------------
(***************************************************************************)
(* Instances of RedisClient for TLC.                                       *)
(***************************************************************************)
EXTENDS RedisClient, TLC

CONSTANTS c1, c2

CallerSymmetry == Permutations(Callers)
=============================================================================
