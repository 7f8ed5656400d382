SPECIFICATION RSafeSpec

CONSTANTS
  Lookups = {v1, v2, v3}
  Codes = {c1}
  LongUrls = {a}
  None = None
  MaxEntries = 1
  Ttl = 1
  MaxLatency = 2
  MaxTime = 2
  MaxLag = 0
  Malformed = {bad}
  MaxRestarts = 1

INVARIANTS
  LastClickIsLatest

\* Every visit is one-shot and time is bounded: the model comes to an end.
CHECK_DEADLOCK FALSE
