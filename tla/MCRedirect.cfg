SPECIFICATION RSpec

CONSTANTS
  Lookups = {v1, v2}
  Codes = {c1, c2}
  LongUrls = {a}
  None = None
  MaxEntries = 1
  Ttl = 1
  MaxLatency = 2
  MaxTime = 2
  MaxLag = 1
  Malformed = {bad}
  MaxRestarts = 1

PROPERTIES
  VisitsAreAnswered

INVARIANTS
  RInv
  CountsAreVisits
  OnlyCrashesLoseVisits

\* Every visit is one-shot and time is bounded: the model comes to an end.
CHECK_DEADLOCK FALSE
