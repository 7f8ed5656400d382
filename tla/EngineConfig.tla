---------------------------- MODULE EngineConfig ----------------------------
(***************************************************************************)
(* What createEngine of libs/engine/src/infra/composition-root.ts makes of *)
(* the environment the process is started with.                            *)
(*                                                                         *)
(* The value of a variable is Unset, Blank, NoInteger (a string of which   *)
(* Number makes no integer) or the integer it spells.                      *)
(***************************************************************************)
EXTENDS Integers

CONSTANTS
  Unset, Blank, NoInteger,
  DEFAULT_CACHE_MAX_ENTRIES, DEFAULT_CACHE_TTL_MS, DEFAULT_LENGTH,
  Uncached \* in place of a cache that could not be constructed

ASSUME DefaultsAssumption ==
  /\ DEFAULT_CACHE_MAX_ENTRIES \in Nat \ {0} /\ DEFAULT_CACHE_TTL_MS \in Nat \ {0}
  /\ DEFAULT_LENGTH \in Nat \ {0}
  /\ Unset \notin Int /\ Blank \notin Int /\ NoInteger \notin Int

(* Number(raw): of an empty or blank string it is zero.                    *)
NumberOf(raw) == IF raw = Blank THEN 0 ELSE raw

AtLeast(least, raw, fallback) ==
  IF raw # Unset /\ NumberOf(raw) \in Int /\ NumberOf(raw) >= least
  THEN NumberOf(raw) ELSE fallback

ReadIntEnv(raw, fallback) == AtLeast(0, raw, fallback)

\* Mutant: a code length is read like the limits of the cache.
ReadPositiveIntEnvAsLimit(raw, fallback) == AtLeast(0, raw, fallback)

(* A blank value is zero, and no length.                                   *)
ReadPositiveIntEnv(raw, fallback) == AtLeast(1, raw, fallback)

ReadCacheConfigFromEnv(env) ==
  [maxEntries |-> ReadIntEnv(env.CACHE_MAX_ENTRIES, DEFAULT_CACHE_MAX_ENTRIES),
   ttlMs |-> ReadIntEnv(env.CACHE_TTL_MS, DEFAULT_CACHE_TTL_MS)]

(* lru-cache throws when neither its size nor the age of its entries is    *)
(* limited; the repository then goes without it.                           *)
BuildRepository(config) ==
  IF config.maxEntries = 0 /\ config.ttlMs = 0 THEN Uncached ELSE config

ShortCodeLength(env) == ReadPositiveIntEnv(env.SHORT_CODE_LENGTH, DEFAULT_LENGTH)
=============================================================================
