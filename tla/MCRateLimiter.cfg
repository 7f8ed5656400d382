SPECIFICATION PSpec

CONSTANTS
  Keys = {k1, k2, k3}
  Capacity = 2
  TokenCost = 2
  MaxKeys = 2
  MaxTime = 4
  Absent = Absent
  Client = k1
  MaxLead = 3

INVARIANTS
  IInv
  NeverBehind
  RateHolds
