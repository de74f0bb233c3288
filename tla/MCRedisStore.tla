----------------------------- MODULE MCRedisStore -----------------------------
(* RedisStore instantiated for TLC; the client threads are symmetric. *)
EXTENDS RedisStore, TLC

ClientSymmetry == Permutations(Clients)
===============================================================================
