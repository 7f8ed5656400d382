SPECIFICATION Spec

CONSTANTS
  Lookups = {l1, l2}
  Codes = {c1, c2}
  LongUrls = {a, b}
  None = None
  Unset = Unset
  Blank = Blank
  NoInteger = NoInteger
  DEFAULT_CACHE_MAX_ENTRIES = 1000
  DEFAULT_CACHE_TTL_MS = 300000
  DEFAULT_LENGTH = 7
  Uncached = Uncached
  MaxEntries <- MCMaxEntries
  Ttl <- MCTtl
  MaxLatency = 1
  MaxTime = 4
  MaxLag = 1

SYMMETRY Symmetry

INVARIANTS
  IInv
  Consistent
  NoFalseNegatives

PROPERTIES
  ResolutionSafety
