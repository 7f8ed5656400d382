SPECIFICATION Spec

CONSTANTS
  bad = bad
  Requests = {r1, r2, r3}
  RawUrls = {a, b, c, bad}
  LongUrls = {a, b, c}
  Hashes = {a, b, c}
  Codes = {k1, k2}
  Invalid = Invalid
  None = None
  MAX_CREATE_ATTEMPTS = 2
  MaxAttempts = 2
  NormalizedOf <- MCNormalizedOf
  HashOf <- MCHashOf

INVARIANTS
  IInv
  SameUrlSameCode
  AnswersStand
  RefusalsPersistNothing

PROPERTIES
  KnownUrlNeverExhausts
  ServiceSafety
  ServiceSpec

\* Every call is one-shot: the system stops when all have settled.
CHECK_DEADLOCK FALSE
