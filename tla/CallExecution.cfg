SPECIFICATION Spec
CONSTANTS
  w1 = w1
  w2 = w2
  k1 = k1
  k2 = k2
  Workers = {w1, w2}
  Keys = {k1, k2}
  Outcomes = {"text", "transient", "permanent"}
  MaxAttempts = 2
  MaxOps = 3
  MaxCrashes = 2
  MaxDamage = 1
  None = None
SYMMETRY Symmetry
INVARIANTS
  CountersExact
  JournalsAgree
  PaidOnce
  LogKeepsReturned
