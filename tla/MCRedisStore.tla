---- MODULE MCRedisStore ----
(* Small instances of RedisStore.  Callers are interchangeable, and so are  *)
(* documents.                                                               *)
EXTENDS RedisStore, TLC

Symmetry == Permutations(Clients) \union Permutations(Docs)

====
