--------------------------- MODULE MCCacheRecheck ---------------------------
(* TLC instances of CacheRecheck. *)
EXTENDS CacheRecheck, TLC

Interchangeable == Permutations(Pipeline) \cup Permutations(Geometry) \cup Permutations(Payload)
=============================================================================
