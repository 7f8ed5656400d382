----------------------- MODULE MCCachingUrlRepository -----------------------
(***************************************************************************)
(* Two lookups of two codes through a cache with room for one, with a      *)
(* clock that reaches past two times to live.                              *)
(***************************************************************************)
EXTENDS CachingUrlRepository, EngineConfig

(* The cache of a process started with these settings.                     *)
MCCache ==
  BuildRepository(ReadCacheConfigFromEnv(
    [CACHE_MAX_ENTRIES |-> 1, CACHE_TTL_MS |-> 1]))

MCMaxEntries == MCCache.maxEntries

MCTtl == MCCache.ttlMs

Symmetry ==
  Permutations(Lookups) \cup Permutations(Codes) \cup Permutations(LongUrls)
=============================================================================
