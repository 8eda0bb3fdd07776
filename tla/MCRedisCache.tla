---------------------------- MODULE MCRedisCache ----------------------------
(* RedisCache for TLC; keys, values and connections are interchangeable.     *)
EXTENDS RedisCache, TLC

Symmetry == Permutations(Value) \cup Permutations(Client)
=============================================================================
