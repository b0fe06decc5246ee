--------------------------- MODULE MCCacheClients ---------------------------
(* Instances of CacheClients for TLC. *)
EXTENDS CacheClients, TLC

\* Ids and decisions are only compared for equality.
Symmetry == Permutations(Ids) \cup Permutations(Decisions)
=============================================================================
